---- MODULE Spec2Model ----
(***************************************************************************)
(* Cross-calendar feast reconciliation of the liturgy frontend (the Nerd   *)
(* view: loadAllCalendarData, generateFeastComparisons,                    *)
(* findFeastInOtherCalendars, getFeastStatus), the shared calendar         *)
(* selection it watches, and the isFeria classifier it filters with.       *)
(*                                                                         *)
(* Text is a sequence of one-character strings, so that the regular        *)
(* expressions of isFeria and the comparison of the final sort are         *)
(* computed character by character as the code computes them.              *)
(***************************************************************************)
EXTENDS Integers, Sequences, FiniteSets, TLC

(***************************************************************************)
(* Text helpers                                                            *)
(***************************************************************************)
UpperChars == <<"A","B","C","D","E","F","G","H","I","J","K","L","M",
                "N","O","P","Q","R","S","T","U","V","W","X","Y","Z">>

LowerChars == <<"a","b","c","d","e","f","g","h","i","j","k","l","m",
                "n","o","p","q","r","s","t","u","v","w","x","y","z">>

DigitChars == <<"0","1","2","3","4","5","6","7","8","9">>

\* the position of c in the sequence s, 0 when c does not occur
IndexOf(c, s) ==
  IF \E i \in 1..Len(s) : s[i] = c
    THEN CHOOSE i \in 1..Len(s) : s[i] = c /\ \A j \in 1..(i - 1) : s[j] # c
    ELSE 0

\* the case folding of the /i flag on one character
Lower(c) == IF IndexOf(c, UpperChars) > 0 THEN LowerChars[IndexOf(c, UpperChars)] ELSE c

IsDigit(c) == IndexOf(c, DigitChars) > 0

IsSpace(c) == c = " "

\* String.prototype.trim
RECURSIVE TrimLeft(_)
TrimLeft(s) == IF s # <<>> /\ IsSpace(Head(s)) THEN TrimLeft(Tail(s)) ELSE s

RECURSIVE TrimRight(_)
TrimRight(s) ==
  IF s # <<>> /\ IsSpace(s[Len(s)]) THEN TrimRight(SubSeq(s, 1, Len(s) - 1)) ELSE s

Trim(s) == TrimRight(TrimLeft(s))

\* the literal lit (written in lower case) matches s at position i, ignoring case
MatchAt(s, i, lit) ==
  /\ i >= 1
  /\ i + Len(lit) - 1 <= Len(s)
  /\ \A k \in 1..Len(lit) : Lower(s[i + k - 1]) = lit[k]

\* /^lit/i
StartsWith(s, lit) == MatchAt(s, 1, lit)

\* /lit/i
Contains(s, lit) == \E i \in 1..Len(s) : MatchAt(s, i, lit)

\* /lit$/i
EndsWith(s, lit) == MatchAt(s, Len(s) - Len(lit) + 1, lit)

\* /a.*b/i
ContainsThen(s, a, b) ==
  \E i \in 1..Len(s) : \E j \in (i + Len(a))..Len(s) : MatchAt(s, i, a) /\ MatchAt(s, j, b)

(***************************************************************************)
(* isFeria (utils/liturgical)                                              *)
(***************************************************************************)
WeekdayNames ==
  { <<"m","o","n","d","a","y">>, <<"t","u","e","s","d","a","y">>,
    <<"w","e","d","n","e","s","d","a","y">>, <<"t","h","u","r","s","d","a","y">>,
    <<"f","r","i","d","a","y">>, <<"s","a","t","u","r","d","a","y">> }

OrdinalNames ==
  { <<"f","i","r","s","t">>, <<"s","e","c","o","n","d">>, <<"t","h","i","r","d">>,
    <<"f","o","u","r","t","h">>, <<"f","i","f","t","h">>, <<"s","i","x","t","h">>,
    <<"s","e","v","e","n","t","h">> }

\* /^Day \d+ of/i
DayNumberOf(s) ==
  /\ StartsWith(s, <<"d","a","y"," ">>)
  /\ \E n \in 1..(Len(s) - 4) :
       /\ \A k \in 5..(4 + n) : IsDigit(s[k])
       /\ MatchAt(s, 5 + n, <<" ","o","f">>)

feriaPatterns(s) ==
  \/ \E w \in WeekdayNames : StartsWith(s, w \o <<" ","o","f">>)
  \/ \E w \in WeekdayNames : StartsWith(s, w \o <<" ","i","n">>)
  \/ StartsWith(s, <<"w","e","e","k","d","a","y">>)
  \/ StartsWith(s, <<"f","e","r","i","a">>)
  \/ StartsWith(s, <<"s","a","b","a","t","o">>)
  \/ StartsWith(s, <<"d","o","m","i","n","i","c","a">>)
  \/ \E o \in OrdinalNames : StartsWith(s, o \o <<" ","d","a","y"," ","o","f">>)
  \/ DayNumberOf(s)
  \/ StartsWith(s, <<"o","r","d","i","n","a","r","y"," ","t","i","m","e">>)

bvmPatterns(s) ==
  \/ StartsWith(s, <<"b","l","e","s","s","e","d"," ","v","i","r","g","i","n"," ","m","a","r","y">>)
  \/ StartsWith(s, <<"b","v","m">>)
  \/ StartsWith(s, <<"o","u","r"," ","l","a","d","y">>)
  \/ StartsWith(s, <<"m","a","r","y">>)
  \/ StartsWith(s, <<"t","h","e"," ","b","l","e","s","s","e","d"," ","v","i","r","g","i","n">>)

\* no further test of a description that starts with a Marian reference
withoutQualifier(s) == TRUE

saturdayBvmPatterns(s) ==
  \/ Contains(s, <<"s","a","t","u","r","d","a","y">>)
  \/ ContainsThen(s, <<"m","e","m","o","r","i","a","l"," ","o","f">>, <<"m","a","r","y">>)
  \/ EndsWith(s, <<"o","f"," ","t","h","e"," ","b","l","e","s","s","e","d"," ",
                   "v","i","r","g","i","n"," ","m","a","r","y">>)

\* the patterns tested on the description as it is given
isFeriaUntrimmed(description) ==
  IF feriaPatterns(description) THEN TRUE
  ELSE IF bvmPatterns(description) /\ saturdayBvmPatterns(description) THEN TRUE
  ELSE FALSE

isFeria(description) ==
  LET s == Trim(description) IN
  IF feriaPatterns(s) THEN TRUE
  ELSE IF bvmPatterns(s) /\ saturdayBvmPatterns(s) THEN TRUE
  ELSE FALSE

(***************************************************************************)
(* String.prototype.localeCompare on the characters the model uses: blank  *)
(* before digits before letters, letters compared without case first, and  *)
(* a lower-case letter before its upper-case letter when nothing else      *)
(* differs.                                                                *)
(***************************************************************************)
CollationOrder == <<" ">> \o DigitChars \o LowerChars

\* the character and its case folding are evaluated once
PrimaryWeight(c) ==
  CHOOSE weight \in
    UNION {{IndexOf(folded, CollationOrder) : folded \in {Lower(char)}} : char \in {c}} :
    TRUE

RECURSIVE ComparePrimary(_, _)
ComparePrimary(a, b) ==
  IF a = <<>> /\ b = <<>> THEN 0
  ELSE IF a = <<>> THEN -1
  ELSE IF b = <<>> THEN 1
  ELSE IF PrimaryWeight(Head(a)) < PrimaryWeight(Head(b)) THEN -1
  ELSE IF PrimaryWeight(Head(a)) > PrimaryWeight(Head(b)) THEN 1
  ELSE ComparePrimary(Tail(a), Tail(b))

RECURSIVE CompareCase(_, _)
CompareCase(a, b) ==
  IF a = <<>> \/ b = <<>> THEN 0
  ELSE IF Head(a) = Head(b) THEN CompareCase(Tail(a), Tail(b))
  ELSE IF Head(a) = Lower(Head(a)) THEN -1
  ELSE 1

localeCompare(a, b) ==
  IF ComparePrimary(a, b) # 0 THEN ComparePrimary(a, b) ELSE CompareCase(a, b)

(***************************************************************************)
(* Bounds and the collaborators' data                                      *)
(***************************************************************************)
\* runs of loadAllCalendarData started in one behaviour
MaxRuns == 2

\* candidates in one Search Service response
MaxResults == 2

\* calendar names in the calendars parameter of the URL
MaxUrlCalendars == 1

\* the dates the date navigation moves between are 0..MaxDate
MaxDate == 1

\* bestMatch.score > 0.9, with scores counted in hundredths
AcceptThreshold == 90

\* the calendar catalog (calendars.value), in catalog order
Catalog == <<"A", "B">>

\* names a URL can carry: the catalog's and one the catalog does not know
UrlNames == {"A", "B", "zz"}

Dates == 0..MaxDate

SaintX == <<"S","a","i","n","t"," ","X">>
SaintA == <<"S","a","i","n","t"," ","A">>
MondayOfAdvent == <<"M","o","n","d","a","y"," ","o","f"," ","A","d","v","e","n","t">>
StX == <<"S","t"," ","X">>

Unit(desc, rank, color) == [desc |-> desc, rank |-> rank, color |-> color]

\* the Day-Lookup Service: what api.getDayInfo(calendar, year, month, day)
\* returns when it does not fail. On date 0 calendar A keeps Saint X and calendar
\* B a feria with a commemoration of Saint A; on date 1 both keep Saint X, with
\* different ranks, and A commemorates Saint A.
getDayInfo(calendar, date) ==
  IF date = 0
    THEN IF calendar = "A"
           THEN [day |-> Unit(SaintX, "Feast", "white"), commemorations |-> <<>>]
           ELSE [day |-> Unit(MondayOfAdvent, "Feria", "violet"),
                 commemorations |-> <<Unit(SaintA, "Memorial", "red")>>]
    ELSE IF calendar = "A"
           THEN [day |-> Unit(SaintX, "Feast", "white"),
                 commemorations |-> <<Unit(SaintA, "Memorial", "red")>>]
           ELSE [day |-> Unit(SaintX, "Memorial", "white"), commemorations |-> <<>>]

NoDayInfo == [day |-> Unit(<<>>, "", ""), commemorations |-> <<>>]

\* how a call of api.getDayInfo settles: with the DayInfo, or with a thrown Error
LookupOutcomes == {"ok", "failed"}

Match(rank, date, score) ==
  [description |-> StX, rank |-> rank, color |-> "gold", date |-> date, score |-> score]

\* candidates of api.searchFeasts (SearchResult), score in hundredths: one at the
\* threshold and one above it, found on date 0 with the rank Memorial
SearchMatches == {Match("Memorial", 0, 90), Match("Memorial", 0, 95)}

SeqsUpTo(S, n) == UNION {[1..k -> S] : k \in 0..n}

\* how a call of api.searchFeasts settles: a list of candidates, or a thrown Error
SearchOutcomes ==
  {[threw |-> FALSE, results |-> l] : l \in SeqsUpTo(SearchMatches, MaxResults)}
    \cup {[threw |-> TRUE, results |-> <<>>]}

\* the values of route.query.calendars after split(',') and the length filter
UrlCalendars == SeqsUpTo(UrlNames, MaxUrlCalendars)

(***************************************************************************)
(* The reconciliation engine's pure steps (views/NerdView)                 *)
(***************************************************************************)
\* the entry of feastName in the Map allFeasts (insertion order), 0 when none
\* a lookup of the map that ignores the white space around a name
FeastIndexTrimmed(allFeasts, feastName) ==
  IF \E i \in 1..Len(allFeasts) : Trim(allFeasts[i].name) = Trim(feastName)
    THEN CHOOSE i \in 1..Len(allFeasts) : Trim(allFeasts[i].name) = Trim(feastName)
    ELSE 0

\* allFeasts.has(feastName), allFeasts.get(feastName): the position of the key
FeastIndex(allFeasts, feastName) ==
  IF \E i \in 1..Len(allFeasts) : allFeasts[i].name = feastName
    THEN CHOOSE i \in 1..Len(allFeasts) : allFeasts[i].name = feastName
    ELSE 0

addFeastToComparison(allFeasts, feastName, calendar, data) ==
  LET created ==
        IF FeastIndex(allFeasts, feastName) = 0
          THEN Append(allFeasts,
                 [name |-> feastName, calendars |-> <<>>, baseCalendar |-> calendar])
          ELSE allFeasts
      i == FeastIndex(created, feastName)
  IN [created EXCEPT ![i].calendars =
        [c \in (DOMAIN @) \cup {calendar} |-> IF c = calendar THEN data ELSE @[c]]]

\* the data recorded for a direct observance
PresentData(unit) ==
  [present |-> TRUE, description |-> unit.desc, rank |-> unit.rank, color |-> unit.color]

\* an observance enters the comparison: desc is truthy and not a feria
Admitted(unit) == unit.desc # <<>> /\ ~isFeria(unit.desc)

\* the main feast, then the commemorations, of one calendar's day
RECURSIVE AddUnits(_, _, _)
AddUnits(allFeasts, calendar, units) ==
  IF units = <<>> THEN allFeasts
  ELSE AddUnits(
         IF Admitted(Head(units))
           THEN addFeastToComparison(allFeasts, Head(units).desc, calendar,
                                     PresentData(Head(units)))
           ELSE allFeasts,
         calendar, Tail(units))

\* for (const calData of calendarData.value): entries without dayInfo are skipped
RECURSIVE CollectFeasts(_, _)
CollectFeasts(allFeasts, data) ==
  IF data = <<>> THEN allFeasts
  ELSE CollectFeasts(
         IF Head(data).st = "ok"
           THEN AddUnits(allFeasts, Head(data).calendar,
                         <<Head(data).dayInfo.day>> \o Head(data).dayInfo.commemorations)
           ELSE allFeasts,
         Tail(data))

\* an index of the array that was never assigned reads undefined, and
\* calData.dayInfo then throws a TypeError
CollectThrows(data) == \E i \in 1..Len(data) : data[i].st = "hole"

\* comparison.calendars[cal]?.present
IsPresent(comparison, cal) ==
  cal \in DOMAIN comparison.calendars /\ comparison.calendars[cal].present

RECURSIVE FilterSeq(_, _)
FilterSeq(s, keep) ==
  IF s = <<>> THEN <<>>
  ELSE IF Head(s) \in keep THEN <<Head(s)>> \o FilterSeq(Tail(s), keep)
  ELSE FilterSeq(Tail(s), keep)

Range(s) == {s[i] : i \in DOMAIN s}

\* a filter that keeps every selected calendar, the Present ones too
everySelectedCalendar(selected, comparison) == selected

calendarsWithoutFeast(selected, comparison) ==
  FilterSeq(selected, {cal \in Range(selected) : ~IsPresent(comparison, cal)})

\* searchResults.reduce((best, current) => current.score > best.score ? current : best)
\* a reducer that lets a later candidate of equal score win
LaterOnTie(best, current) == IF current.score >= best.score THEN current ELSE best

\* (best, current) => ((current.score || 0) > (best.score || 0) ? current : best);
\* the scores of the model are positive numbers, which || 0 leaves as they are
Better(best, current) == IF current.score > best.score THEN current ELSE best

\* searchResults.reduce(Better) without an initial value: the first element seeds it
RECURSIVE ReduceBest(_, _)
ReduceBest(best, rest) ==
  IF rest = <<>> THEN best
  ELSE ReduceBest(Better(best, Head(rest)), Tail(rest))

bestMatch(searchResults) == ReduceBest(Head(searchResults), Tail(searchResults))

\* an acceptance test that lets a score of exactly 0.9 pass
AcceptedAtThreshold(match) == match.score >= AcceptThreshold

\* if (bestMatch.score > 0.9)
Accepted(match) == match.score > AcceptThreshold

\* match data that keeps the rank of the base calendar
FoundDataRankOfBase(comparison, calendar, match) ==
  [present |-> FALSE, description |-> match.description,
   rank |-> comparison.calendars[comparison.baseCalendar].rank,
   color |-> match.color, date |-> match.date,
   transferred |-> comparison.baseCalendar # calendar,
   rankChanged |-> comparison.calendars[comparison.baseCalendar].rank # match.rank]

\* match data whose transferred flag is set for the base calendar only
FoundDataSameCalendar(comparison, calendar, match) ==
  [present |-> FALSE, description |-> match.description, rank |-> match.rank,
   color |-> match.color, date |-> match.date,
   transferred |-> comparison.baseCalendar = calendar,
   rankChanged |-> comparison.calendars[comparison.baseCalendar].rank # match.rank]

\* the data recorded for an accepted match
FoundData(comparison, calendar, match) ==
  [present |-> FALSE, description |-> match.description, rank |-> match.rank,
   color |-> match.color, date |-> match.date,
   transferred |-> comparison.baseCalendar # calendar,
   rankChanged |-> comparison.calendars[comparison.baseCalendar].rank # match.rank]

\* a handler that records an entry for every calendar it searched, an entry
\* without match data when no match was accepted
ApplySearchRecordingAbsent(comparison, calendar, outcome) ==
  [comparison EXCEPT !.calendars =
     [c \in (DOMAIN @) \cup {calendar} |->
        IF c # calendar THEN @[c]
        ELSE IF ~outcome.threw /\ outcome.results # <<>>
                /\ Accepted(bestMatch(outcome.results))
          THEN FoundData(comparison, calendar, bestMatch(outcome.results))
        ELSE [present |-> FALSE, description |-> <<>>, rank |-> "", color |-> "",
              date |-> 0, transferred |-> FALSE, rankChanged |-> FALSE]]]

\* a handler that records an entry without match data for a calendar whose search threw
ApplySearchMarkingFailure(comparison, calendar, outcome) ==
  IF outcome.threw
    THEN [comparison EXCEPT !.calendars =
            [c \in (DOMAIN @) \cup {calendar} |->
               IF c = calendar
                 THEN [present |-> FALSE, description |-> <<>>, rank |-> "", color |-> "",
                       date |-> 0, transferred |-> FALSE, rankChanged |-> FALSE]
                 ELSE @[c]]]
  ELSE IF outcome.results # <<>> /\ Accepted(bestMatch(outcome.results))
    THEN [comparison EXCEPT !.calendars =
            [c \in (DOMAIN @) \cup {calendar} |->
               IF c = calendar
                 THEN FoundData(comparison, calendar, bestMatch(outcome.results))
                 ELSE @[c]]]
  ELSE comparison

\* the body of the try block for one calendar: the comparison after the search settled
ApplySearch(comparison, calendar, outcome) ==
  IF outcome.threw \/ outcome.results = <<>> THEN comparison
  ELSE IF Accepted(bestMatch(outcome.results))
    THEN [comparison EXCEPT !.calendars =
            [c \in (DOMAIN @) \cup {calendar} |->
               IF c = calendar
                 THEN FoundData(comparison, calendar, bestMatch(outcome.results))
                 ELSE @[c]]]
  ELSE comparison

\* Array.prototype.sort((a, b) => a.name.localeCompare(b.name)): stable
RECURSIVE InsertSorted(_, _)
InsertSorted(sorted, f) ==
  IF sorted = <<>> THEN <<f>>
  ELSE IF localeCompare(f.name, sorted[Len(sorted)].name) >= 0 THEN Append(sorted, f)
  ELSE Append(InsertSorted(SubSeq(sorted, 1, Len(sorted) - 1), f), sorted[Len(sorted)])

\* Array.from(allFeasts.values()) published in the order of insertion
KeepBuildOrder(feasts) == feasts

RECURSIVE SortByName(_)
SortByName(feasts) ==
  IF feasts = <<>> THEN <<>>
  ELSE InsertSorted(SortByName(SubSeq(feasts, 1, Len(feasts) - 1)), feasts[Len(feasts)])

getFeastStatus(comparison, calendar) ==
  IF calendar \notin DOMAIN comparison.calendars THEN "absent"
  ELSE IF comparison.calendars[calendar].present THEN "present"
  ELSE IF comparison.calendars[calendar].transferred THEN "transferred"
  ELSE IF comparison.calendars[calendar].rankChanged THEN "rank-changed"
  ELSE "found-elsewhere"

(***************************************************************************)
(* State                                                                   *)
(***************************************************************************)
VARIABLES
  selectedCalendars,  \* useCalendarSelection: the shared selection
  selectedDate,       \* useDateNavigation: the date of the route
  mounted,            \* the view's onMounted hook has run
  calendarData,       \* ref<CalendarDayData[]>, shared by all runs
  feastComparisons,   \* ref<FeastComparison[]>, the published comparison
  isLoading,
  error,
  runs,               \* the invocations of loadAllCalendarData, by order of start
  started,            \* how many invocations got past the empty-selection return
  published,          \* history: who assigned feastComparisons last, and from what
  lastPublish,        \* history: the run that published in the last step, if one did
  lastSearch,         \* history: the search call that settled in the last step, if any
  searchResults,      \* the argument of the reduce when it is studied on its own
  chosen,             \* its result
  given,              \* the arguments of another step studied on its own
  result,             \* <<>> until that step has run, then <<what it produced>>
  todayView,          \* TodayView: its refs abortController, loading, displayed...
  loads,              \* TodayView: the invocations of loadDayInfo, by order of start
  state,              \* useSearch: ref<SearchState>, shared by all its users
  abortController,    \* useSearch: the module's abortController, 0 for null
  searches,           \* useSearch: the invocations of performSearch, by order of start
  weekView,           \* WeekView: its refs loading, abortController, displayed...
  weekLoad,           \* WeekView: the invocation of loadWeekInfo in flight, if any
  weekDisturbed,      \* WeekView: failed lookups and changes during a load, so far
  monthInfoMap,       \* MonthView: ref { date: { calendar: dayInfo } }
  monthLoading,       \* MonthView: its ref loading
  monthRuns,          \* MonthView: the invocations of loadMonthData, by order of start
  calendars,          \* useCalendarSelection: the catalog ref, <<>> until it is loaded
  catalogLoads,       \* useCalendarSelection: invocations of loadCalendars awaiting it
  catalogState,       \* useCalendarSelection: its refs loading and error, and its watcher
  route               \* route.query.calendars, split at its commas

vars == <<selectedCalendars, selectedDate, mounted, calendarData, feastComparisons,
          isLoading, error, runs, started, published, lastPublish, lastSearch,
          searchResults, chosen, given, result,
          todayView, loads, state, abortController, searches,
          weekView, weekLoad, weekDisturbed, monthInfoMap, monthLoading, monthRuns,
          calendars, catalogLoads, catalogState, route>>

\* the state of the view
view == <<selectedCalendars, selectedDate, mounted, calendarData, feastComparisons,
          isLoading, error, runs, started, published, lastPublish, lastSearch>>

\* the state of the Today view and of the search composable
\* the refs of WeekView and MonthView, and the catalog of useCalendarSelection
grids == <<weekView, weekLoad, weekDisturbed, monthInfoMap, monthLoading, monthRuns>>

catalog == <<calendars, catalogLoads, catalogState, route>>

pages == <<todayView, loads, state, abortController, searches, grids, catalog>>

\* the variables of the steps studied on their own and of the other components
reduction == <<searchResults, chosen, given, result, pages>>

RunIds == 1..MaxRuns

IdleRun ==
  [pc |-> "idle", date |-> 0, cals |-> <<>>, got |-> <<>>, allFeasts |-> <<>>,
   feastIdx |-> 0, toSearch |-> <<>>, log |-> <<>>, accepted |-> {}]

DoneRun == [IdleRun EXCEPT !.pc = "done"]

Hole == [st |-> "hole", calendar |-> "", dayInfo |-> NoDayInfo]

NothingPublished ==
  [by |-> 0, latest |-> 0, accepted |-> {}, date |-> 0, cals |-> <<>>, got |-> <<>>,
   log |-> <<>>]

NoPublish ==
  [by |-> 0, date |-> 0, cals |-> <<>>, got |-> <<>>, log |-> <<>>, selected |-> <<>>]

NoSearch ==
  [run |-> 0, seq |-> 0, feast |-> <<>>, calendar |-> "", kind |-> "none", best |-> 0]

NoMatch == Match("", 0, 0 - 1)

InFlight(r) == runs[r].pc \in {"lookups", "search"}

\* a map without keys: {} as Record<string, DayInfo>
EmptyMap == [c \in {} |-> NoDayInfo]

\* the refs of TodayView as its setup creates them; a date ref holds <<>> for
\* '' and <<date>> for a date, abortController 0 for null, and loads are the
\* invocations of loadDayInfo so far
InitTodayView ==
  /\ todayView = [abortController |-> 0, loading |-> FALSE, displayedDate |-> <<>>,
                  displayedData |-> EmptyMap, displayedCalendars |-> <<>>]
  /\ loads = <<>>

\* the state of useSearch as the module creates it; abortController holds 0
\* for null, and searches are the invocations of performSearch so far
InitUseSearch ==
  /\ state = [query |-> <<>>, results |-> <<>>, loading |-> FALSE, error |-> "null",
              hasSearched |-> FALSE]
  /\ abortController = 0
  /\ searches = <<>>

\* no invocation
Idle == [pc |-> "idle"]

\* the refs of WeekView as its setup creates them; displayedWeekData holds <<>>
\* for null and <<map>> for a map
InitWeekView ==
  /\ weekView = [loading |-> FALSE, abortController |-> 0, displayedDate |-> <<>>,
                 displayedWeekData |-> <<>>, displayedCalendars |-> <<>>]
  /\ weekLoad = Idle
  /\ weekDisturbed = 0

\* the refs of MonthView as its setup creates them
InitMonthView ==
  /\ monthInfoMap = EmptyMap
  /\ monthLoading = FALSE
  /\ monthRuns = <<>>

\* useCalendarSelection where the views of the comparison find it: the catalog
\* is loaded and no loadCalendars is in flight
InitCatalog ==
  /\ calendars = Catalog
  /\ catalogLoads = 0
  /\ catalogState = [loading |-> FALSE, error |-> "", watching |-> TRUE, urlCalendars |-> <<>>]
  /\ route = <<>>

InitPages ==
  InitTodayView /\ InitUseSearch /\ InitWeekView /\ InitMonthView /\ InitCatalog

\* the reconciliation view before it is mounted
InitReconciliation ==
  /\ selectedDate = 0
  /\ mounted = FALSE
  /\ calendarData = <<>>
  /\ feastComparisons = <<>>
  /\ isLoading = FALSE
  /\ error = ""
  /\ runs = [r \in RunIds |-> IdleRun]
  /\ started = 0
  /\ published = NothingPublished
  /\ lastPublish = NoPublish
  /\ lastSearch = NoSearch

\* the view is opened with every calendar of the catalog selected
InitView ==
  /\ selectedCalendars = Catalog
  /\ InitReconciliation
  /\ InitPages

\* no step is studied on its own
NoStudy == given = <<>> /\ result = <<>>

Init ==
  /\ InitView
  /\ searchResults = <<>>
  /\ chosen = NoMatch
  /\ NoStudy

(***************************************************************************)
(* loadAllCalendarData, up to the first await                              *)
(***************************************************************************)
loadAllCalendarData(selected, date) ==
  IF Len(selected) = 0
    THEN UNCHANGED <<calendarData, isLoading, error, runs, started>>
    ELSE /\ started < MaxRuns
         /\ started' = started + 1
         /\ isLoading' = TRUE
         /\ error' = ""
         /\ calendarData' =
              [i \in 1..Len(selected) |->
                 [st |-> "loading", calendar |-> selected[i], dayInfo |-> NoDayInfo]]
         /\ runs' = [runs EXCEPT ![started + 1] =
              [IdleRun EXCEPT !.pc = "lookups", !.date = date, !.cals = selected,
                              !.got = [i \in 1..Len(selected) |-> "pending"]]]

\* nothing is published and no search settles in a step that starts a run
NoEvent ==
  /\ lastPublish' = NoPublish
  /\ lastSearch' = NoSearch
  /\ UNCHANGED <<feastComparisons, published>>

\* onMounted(() => loadAllCalendarData())
Mounted ==
  /\ ~mounted
  /\ mounted' = TRUE
  /\ loadAllCalendarData(selectedCalendars, selectedDate)
  /\ NoEvent
  /\ UNCHANGED <<selectedCalendars, selectedDate>>
  /\ UNCHANGED reduction

\* watch([selectedDate, selectedCalendars], loadAllCalendarData, { deep: true }):
\* the callback runs in the microtask that follows the change
SelectionChanged(selected) ==
  /\ mounted
  /\ selectedCalendars' = selected
  /\ loadAllCalendarData(selected, selectedDate)
  /\ NoEvent
  /\ UNCHANGED <<selectedDate, mounted>>
  /\ UNCHANGED reduction

DateChanged(date) ==
  /\ mounted
  /\ date \in Dates
  /\ selectedDate' = date
  /\ loadAllCalendarData(selectedCalendars, date)
  /\ NoEvent
  /\ UNCHANGED <<selectedCalendars, mounted>>
  /\ UNCHANGED reduction

(***************************************************************************)
(* useCalendarSelection and useDateNavigation, as the view's watcher sees  *)
(* them                                                                    *)
(***************************************************************************)
toggleCalendar(calendarName) ==
  SelectionChanged(
    IF calendarName \in Range(selectedCalendars)
      THEN FilterSeq(selectedCalendars, Range(selectedCalendars) \ {calendarName})
      ELSE Append(selectedCalendars, calendarName))

selectAll == SelectionChanged(Catalog)

selectNone == SelectionChanged(<<>>)

\* the names of the URL that the catalog knows
validCalendars(urlCalendars) == FilterSeq(urlCalendars, Range(Catalog))

\* selectedCalendars.value = validCalendars, in syncWithRoute and in loadCalendars
syncWithRoute(urlCalendars) ==
  /\ Len(urlCalendars) > 0
  /\ SelectionChanged(validCalendars(urlCalendars))

goToPrevious == DateChanged(selectedDate - 1)

goToNext == DateChanged(selectedDate + 1)

(***************************************************************************)
(* The run after its awaits                                                *)
(***************************************************************************)
\* calendarData.value[index] = entry: an index past the end extends the array
\* and leaves the indexes in between unassigned
WriteAt(data, i, entry) ==
  [k \in 1..(IF i > Len(data) THEN i ELSE Len(data)) |->
     IF k = i THEN entry ELSE IF k <= Len(data) THEN data[k] ELSE Hole]

\* the entry a settled lookup stores: dayInfo on success, error on failure
SettledEntry(calendar, date, outcome) ==
  IF outcome = "ok"
    THEN [st |-> "ok", calendar |-> calendar, dayInfo |-> getDayInfo(calendar, date)]
    ELSE [st |-> "error", calendar |-> calendar, dayInfo |-> NoDayInfo]

\* the first entry of allFeasts from k on with a calendar to search, 0 when none
NextSearchIndex(allFeasts, k, selected) ==
  IF \E j \in k..Len(allFeasts) : calendarsWithoutFeast(selected, allFeasts[j]) # <<>>
    THEN CHOOSE j \in k..Len(allFeasts) :
           /\ calendarsWithoutFeast(selected, allFeasts[j]) # <<>>
           /\ \A h \in k..(j - 1) : calendarsWithoutFeast(selected, allFeasts[h]) = <<>>
    ELSE 0

\* for (const [feastName, comparison] of allFeasts.entries()) from entry k on, up
\* to the next await of api.searchFeasts: findFeastInOtherCalendars reads
\* selectedCalendars when it is called
\* a loop that issues the searches of all the calendars of a feast together
ContinueSearchAllAtOnce(run, allFeasts, k, selected) ==
  LET j == NextSearchIndex(allFeasts, k, selected) IN
  IF j = 0
    THEN [run EXCEPT !.pc = "done", !.allFeasts = allFeasts, !.feastIdx = 0,
                     !.toSearch = <<>>]
    ELSE [run EXCEPT !.pc = "search", !.allFeasts = allFeasts, !.feastIdx = j,
                     !.toSearch = calendarsWithoutFeast(selected, allFeasts[j]),
                     !.log = @ \o [i \in 1..Len(calendarsWithoutFeast(selected, allFeasts[j])) |->
                                     <<allFeasts[j].name,
                                       calendarsWithoutFeast(selected, allFeasts[j])[i]>>]]

ContinueSearch(run, allFeasts, k, selected) ==
  LET j == NextSearchIndex(allFeasts, k, selected) IN
  IF j = 0
    THEN [run EXCEPT !.pc = "done", !.allFeasts = allFeasts, !.feastIdx = 0,
                     !.toSearch = <<>>]
    ELSE [run EXCEPT !.pc = "search", !.allFeasts = allFeasts, !.feastIdx = j,
                     !.toSearch = calendarsWithoutFeast(selected, allFeasts[j]),
                     !.log = Append(@, <<allFeasts[j].name,
                                         Head(calendarsWithoutFeast(selected, allFeasts[j]))>>)]

\* the end of generateFeastComparisons and the finally block, or the run's next await
Proceed(r, next) ==
  IF next.pc = "done"
    THEN /\ feastComparisons' = SortByName(next.allFeasts)
         /\ published' = [by |-> r, latest |-> started, accepted |-> next.accepted,
                           date |-> next.date, cals |-> next.cals, got |-> next.got,
                           log |-> next.log]
         /\ lastPublish' = [by |-> r, date |-> next.date, cals |-> next.cals,
                            got |-> next.got, log |-> next.log,
                            selected |-> selectedCalendars]
         /\ isLoading' = FALSE
         /\ runs' = [runs EXCEPT ![r] = DoneRun]
    ELSE /\ runs' = [runs EXCEPT ![r] = next]
         /\ lastPublish' = NoPublish
         /\ UNCHANGED <<feastComparisons, published, isLoading>>

\* a continuation that runs as soon as one lookup has settled
AnySettled(got) == \E k \in 1..Len(got) : got[k] # "pending"

\* await Promise.all(promises): every lookup callback has finished
AllSettled(got) == \A k \in 1..Len(got) : got[k] # "pending"

\* api.getDayInfo of run r for its index i settles; when it is the last one,
\* Promise.all resolves and generateFeastComparisons runs up to its first await
LookupSettle(r, i, outcome) ==
  /\ runs[r].pc = "lookups"
  /\ i \in 1..Len(runs[r].cals)
  /\ runs[r].got[i] = "pending"
  /\ LET data == WriteAt(calendarData, i,
                         SettledEntry(runs[r].cals[i], runs[r].date, outcome))
         got == [runs[r].got EXCEPT ![i] = outcome]
         run == [runs[r] EXCEPT !.got = got]
     IN /\ calendarData' = data
        /\ IF ~AllSettled(got)
             THEN /\ runs' = [runs EXCEPT ![r] = run]
                  /\ lastPublish' = NoPublish
                  /\ UNCHANGED <<feastComparisons, published, isLoading, error>>
           ELSE IF CollectThrows(data)
             THEN /\ error' = "TypeError"
                  /\ isLoading' = FALSE
                  /\ runs' = [runs EXCEPT ![r] = DoneRun]
                  /\ lastPublish' = NoPublish
                  /\ UNCHANGED <<feastComparisons, published>>
           ELSE /\ Proceed(r, ContinueSearch(run, CollectFeasts(<<>>, data), 1,
                                             selectedCalendars))
                /\ UNCHANGED error
  /\ lastSearch' = NoSearch
  /\ UNCHANGED <<selectedCalendars, selectedDate, mounted, started>>
  /\ UNCHANGED reduction

\* what a settled search call was: a throw, an empty list, or a list of candidates
SearchKind(outcome) ==
  IF outcome.threw THEN "threw" ELSE IF outcome.results = <<>> THEN "empty" ELSE "some"

\* the highest score of a non-empty list of candidates
MaxScore(results) ==
  CHOOSE m \in {results[i].score : i \in DOMAIN results} :
    \A i \in DOMAIN results : results[i].score <= m

\* history: the search that settles, and whether its highest score passes 0.9
SearchRecord(r, run, outcome) ==
  [run |-> r, seq |-> Len(run.log), feast |-> run.allFeasts[run.feastIdx].name,
   calendar |-> Head(run.toSearch), kind |-> SearchKind(outcome),
   best |-> IF SearchKind(outcome) = "some" THEN MaxScore(outcome.results) ELSE 0]

NoteAccepted(run, record) ==
  IF record.kind = "some" /\ record.best > AcceptThreshold
    THEN [run EXCEPT !.accepted = @ \cup {<<record.feast, record.calendar>>}]
    ELSE run

\* run r, in state searching, after its search call settled: the rest of the
\* try block, then the next calendar of the feast, or the feasts that follow
AfterSearch(r, searching, outcome, selected) ==
  LET run == NoteAccepted(searching, SearchRecord(r, searching, outcome))
      k == run.feastIdx
      calendar == Head(run.toSearch)
      allFeasts == [run.allFeasts EXCEPT ![k] = ApplySearch(@, calendar, outcome)]
  IN IF Tail(run.toSearch) # <<>>
       THEN [run EXCEPT !.allFeasts = allFeasts,
                        !.toSearch = Tail(@),
                        !.log = Append(@, <<run.allFeasts[k].name,
                                            Head(Tail(run.toSearch))>>)]
       ELSE ContinueSearch(run, allFeasts, k + 1, selected)

\* api.searchFeasts of run r settles: the rest of the try block, then the loops
\* up to the next await or to the end
SearchSettle(r, outcome) ==
  /\ runs[r].pc = "search"
  /\ lastSearch' = SearchRecord(r, runs[r], outcome)
  /\ Proceed(r, AfterSearch(r, runs[r], outcome, selectedCalendars))
  /\ UNCHANGED <<selectedCalendars, selectedDate, mounted, calendarData, error, started>>
  /\ UNCHANGED reduction

Next ==
  \/ Mounted
  \/ \E c \in Range(Catalog) : toggleCalendar(c)
  \/ selectAll
  \/ selectNone
  \/ \E u \in UrlCalendars : syncWithRoute(u)
  \/ goToPrevious
  \/ goToNext
  \/ \E r \in RunIds : \E i \in 1..Len(runs[r].cals) : \E o \in LookupOutcomes :
       LookupSettle(r, i, o)
  \/ \E r \in RunIds : \E o \in SearchOutcomes : SearchSettle(r, o)

Spec == Init /\ [][Next]_vars

(***************************************************************************)
(* The reduce of findFeastInOtherCalendars on its own: any non-empty list  *)
(* of candidates, in any order                                             *)
(***************************************************************************)
\* the longest list of candidates given to the reduce
MaxCandidates == 3

Candidates ==
  {Match("Memorial", 0, sc) : sc \in {50, 90, 95}} \cup
  {Match("Feast", 1, sc) : sc \in {50, 90, 95}}

InitBest ==
  /\ InitView
  /\ searchResults \in SeqsUpTo(Candidates, MaxCandidates) \ {<<>>}
  /\ chosen = NoMatch
  /\ NoStudy

\* const bestMatch = searchResults.reduce(...)
ReduceStep ==
  /\ chosen = NoMatch
  /\ chosen' = bestMatch(searchResults)
  /\ UNCHANGED <<searchResults, view, given, result, pages>>

NextBest == ReduceStep

SpecBest == InitBest /\ [][NextBest]_vars

(***************************************************************************)
(* One search of findFeastInOtherCalendars on its own: a feast that        *)
(* calendar A reports, searched in calendar B                              *)
(***************************************************************************)
BaseRanks == {"Feast", "Memorial"}

ReportedBy(calendar, rank) ==
  [name |-> SaintX,
   calendars |-> [c \in {calendar} |-> PresentData(Unit(SaintX, rank, "white"))],
   baseCalendar |-> calendar]

InitFound ==
  /\ InitView
  /\ searchResults = <<>>
  /\ chosen = NoMatch
  /\ given \in {[comparison |-> ReportedBy("A", rank), calendar |-> "B", results |-> list] :
                  rank \in BaseRanks, list \in SeqsUpTo(Candidates, MaxCandidates)}
  /\ result = <<>>

\* const searchResults = await api.searchFeasts(calendar, feastName), and the
\* rest of the try block
SearchStep ==
  /\ result = <<>>
  /\ result' = <<ApplySearch(given.comparison, given.calendar,
                             [threw |-> FALSE, results |-> given.results])>>
  /\ UNCHANGED <<given, view, searchResults, chosen, pages>>

NextFound == SearchStep

SpecFound == InitFound /\ [][NextFound]_vars

(***************************************************************************)
(* The grouping loop of generateFeastComparisons on its own: two calendars *)
(* whose lookups succeeded, with wordings of one feast that differ in      *)
(* case, white space and punctuation                                       *)
(***************************************************************************)
MaxCommemorations == 1

Wordings ==
  {StX, <<"s","t"," ","X">>, <<"S","t"," ","X"," ">>, <<"S","t","."," ","X">>}

WordingDays ==
  {[day |-> Unit(d, "Feast", "white"), commemorations |-> comms] :
     d \in Wordings,
     comms \in SeqsUpTo({Unit(w, "Memorial", "white") : w \in Wordings}, MaxCommemorations)}

LoadedEntry(calendar, dayInfo) == [st |-> "ok", calendar |-> calendar, dayInfo |-> dayInfo]

InitGroup ==
  /\ InitView
  /\ searchResults = <<>>
  /\ chosen = NoMatch
  /\ given \in {<<LoadedEntry("A", a), LoadedEntry("B", b)>> : a \in WordingDays, b \in WordingDays}
  /\ result = <<>>

\* generateFeastComparisons, from its first line to the end of the first loop
GroupStep ==
  /\ result = <<>>
  /\ result' = <<CollectFeasts(<<>>, given)>>
  /\ UNCHANGED <<given, view, searchResults, chosen, pages>>

NextGroup == GroupStep

SpecGroup == InitGroup /\ [][NextGroup]_vars

(***************************************************************************)
(* The worthiness test of the novena view (isSunday, isNovenaWorthy) and   *)
(* the admission test of the grouping loop, applied to the same observance *)
(***************************************************************************)
\* dateStr.split('-')
RECURSIVE SplitOnDash(_, _)
SplitOnDash(s, part) ==
  IF s = <<>> THEN <<part>>
  ELSE IF Head(s) = "-" THEN <<part>> \o SplitOnDash(Tail(s), <<>>)
  ELSE SplitOnDash(Tail(s), Append(part, Head(s)))

\* Number(text) of a string of decimal digits
RECURSIVE ToNumber(_)
ToNumber(digits) ==
  IF digits = <<>> THEN 0
  ELSE 10 * ToNumber(SubSeq(digits, 1, Len(digits) - 1))
       + (IndexOf(digits[Len(digits)], DigitChars) - 1)

MonthOffsets == <<0, 3, 2, 5, 0, 3, 5, 1, 4, 6, 2, 4>>

\* new Date(year, month - 1, day).getDay() in the Gregorian calendar: 0 is Sunday
getDay(year, month, day) ==
  LET y == IF month < 3 THEN year - 1 ELSE year IN
  (y + (y \div 4) - (y \div 100) + (y \div 400) + MonthOffsets[month] + day) % 7

isSunday(dateStr) ==
  LET parts == SplitOnDash(dateStr, <<>>) IN
  getDay(ToNumber(parts[1]), ToNumber(parts[2]), ToNumber(parts[3])) = 0

\* a worthiness test without its last condition
isNovenaWorthyOfContent(title, rank, date) ==
  IF isFeria(title) THEN FALSE
  ELSE IF isSunday(date)
          /\ (\/ Contains(rank, <<"s","u","n","d","a","y">>)
              \/ Contains(rank, <<"d","o","m","i","n","i","c","a">>)
              \/ Contains(rank, <<"o","r","d","i","n","a","r","y">>)
              \/ Contains(title, <<"o","r","d","i","n","a","r","y"," ","t","i","m","e">>))
    THEN FALSE
  ELSE TRUE

\* a worthiness test without its condition on Sundays
isNovenaWorthyAnyDay(title, rank, date) ==
  IF isFeria(title) THEN FALSE
  ELSE IF Trim(title) = <<>> \/ Trim(rank) = <<>> THEN FALSE
  ELSE TRUE

isNovenaWorthy(title, rank, date) ==
  IF isFeria(title) THEN FALSE
  ELSE IF isSunday(date)
          /\ (\/ Contains(rank, <<"s","u","n","d","a","y">>)
              \/ Contains(rank, <<"d","o","m","i","n","i","c","a">>)
              \/ Contains(rank, <<"o","r","d","i","n","a","r","y">>)
              \/ Contains(title, <<"o","r","d","i","n","a","r","y"," ","t","i","m","e">>))
    THEN FALSE
  ELSE IF Trim(title) = <<>> \/ Trim(rank) = <<>> THEN FALSE
  ELSE TRUE

\* the texts of the observances studied
FeriaTitle == <<"F","e","r","i","a">>
ThirdSundayOfAdvent ==
  <<"T","h","i","r","d"," ","S","u","n","d","a","y"," ","o","f"," ","A","d",
    "v","e","n","t">>
ThirdSundayInOrdinaryTime ==
  <<"T","h","i","r","d"," ","S","u","n","d","a","y"," ","i","n"," ","O","r",
    "d","i","n","a","r","y"," ","T","i","m","e">>
FeastRank == <<"F","e","a","s","t">>
SundayRank == <<"S","u","n","d","a","y">>
DominicaRank ==
  <<"D","O","M","I","N","I","C","A"," ","I","I"," ","C","L","A","S","S","I",
    "S">>
OrdinaryRank == <<"O","r","d","i","n","a","r","y">>
FirstOfDecember == <<"2","0","2","4","-","1","2","-","0","1">>
SecondOfDecember == <<"2","0","2","4","-","1","2","-","0","2">>

\* 2024-12-01 is a Sunday, 2024-12-02 a Monday
StudyDates == {FirstOfDecember, SecondOfDecember}

StudyTitles ==
  {<<>>, <<" ">>, StX, FeriaTitle, ThirdSundayOfAdvent, ThirdSundayInOrdinaryTime}

StudyRanks ==
  {<<>>, <<" ">>, FeastRank, SundayRank, DominicaRank, OrdinaryRank}

StudyPlaces == {"day", "commemoration"}

\* the day a calendar reports, with the observance as its day or as a commemoration
DayWith(unit, place) ==
  IF place = "day" THEN [day |-> unit, commemorations |-> <<>>]
  ELSE [day |-> Unit(FeriaTitle, FeastRank, "green"), commemorations |-> <<unit>>]

InitWorthy ==
  /\ InitView
  /\ searchResults = <<>>
  /\ chosen = NoMatch
  /\ given \in {[unit |-> Unit(title, rank, "white"), date |-> date, place |-> place] :
                  title \in StudyTitles, rank \in StudyRanks, date \in StudyDates,
                  place \in StudyPlaces}
  /\ result = <<>>

\* the grouping loop on the one calendar, and isNovenaWorthy on the observance
WorthyStep ==
  /\ result = <<>>
  /\ result' =
       <<[feasts |-> CollectFeasts(<<>>, <<LoadedEntry("A", DayWith(given.unit, given.place))>>),
          worthy |-> isNovenaWorthy(given.unit.desc, given.unit.rank, given.date)]>>
  /\ UNCHANGED <<given, view, searchResults, chosen, pages>>

NextWorthy == WorthyStep

SpecWorthy == InitWorthy /\ [][NextWorthy]_vars

(***************************************************************************)
(* The search loops of one run on their own, with three calendars in any   *)
(* order of selection, so that a feast has several calendars to search     *)
(***************************************************************************)
ThreeCalendars == {"A", "B", "C"}

Orderings ==
  {o \in [1..3 -> ThreeCalendars] : \A i, j \in 1..3 : o[i] = o[j] => i = j}

SequenceDays ==
  {[day |-> Unit(StX, "Feast", "white"), commemorations |-> <<>>],
   [day |-> Unit(FeriaTitle, "Feria", "green"), commemorations |-> <<>>],
   [day |-> Unit(FeriaTitle, "Feria", "green"),
    commemorations |-> <<Unit(SaintA, "Memorial", "red")>>]}

\* calendarData once every lookup succeeded: an entry per selected calendar, in order
LoadedData(selected, days) ==
  [i \in 1..Len(selected) |-> LoadedEntry(selected[i], days[selected[i]])]

InitSequence ==
  /\ InitView
  /\ searchResults = <<>>
  /\ chosen = NoMatch
  /\ given \in {[selected |-> o, days |-> d] :
                  o \in Orderings, d \in [ThreeCalendars -> SequenceDays]}
  /\ result = <<>>

\* generateFeastComparisons up to its first search call, or to its end
StartSequence ==
  /\ result = <<>>
  /\ result' =
       <<ContinueSearch([IdleRun EXCEPT !.cals = given.selected],
                        CollectFeasts(<<>>, LoadedData(given.selected, given.days)),
                        1, given.selected)>>
  /\ UNCHANGED <<given, view, searchResults, chosen, pages>>

\* the search call in flight settles
SettleSequence(outcome) ==
  /\ result # <<>>
  /\ result[1].pc = "search"
  /\ result' = <<AfterSearch(1, result[1], outcome, given.selected)>>
  /\ UNCHANGED <<given, view, searchResults, chosen, pages>>

NextSequence ==
  \/ StartSequence
  \/ \E outcome \in SearchOutcomes : SettleSequence(outcome)

SpecSequence == InitSequence /\ [][NextSequence]_vars

(***************************************************************************)
(* The view opened with three calendars selected, so that a later run can  *)
(* be started for a selection two calendars shorter than an earlier one's  *)
(***************************************************************************)
InitThree ==
  /\ selectedCalendars = <<"A", "B", "C">>
  /\ selectedDate = 0
  /\ mounted = FALSE
  /\ calendarData = <<>>
  /\ feastComparisons = <<>>
  /\ isLoading = FALSE
  /\ error = ""
  /\ runs = [r \in RunIds |-> IdleRun]
  /\ started = 0
  /\ published = NothingPublished
  /\ lastPublish = NoPublish
  /\ lastSearch = NoSearch
  /\ InitPages
  /\ searchResults = <<>>
  /\ chosen = NoMatch
  /\ NoStudy

\* the route that shortens the selection to what its URL names, and the
\* settling of the calls
NextThree ==
  \/ Mounted
  \/ \E u \in UrlCalendars : syncWithRoute(u)
  \/ \E r \in RunIds : \E i \in 1..Len(runs[r].cals) : \E o \in LookupOutcomes :
       LookupSettle(r, i, o)
  \/ \E r \in RunIds : \E o \in SearchOutcomes : SearchSettle(r, o)

SpecThree == InitThree /\ [][NextThree]_vars

(***************************************************************************)
(* isFeria on its own: descriptions made of an opening, an ending, a case  *)
(* and blanks around them                                                  *)
(***************************************************************************)
\* the upper-case letter of a lower-case letter, other characters unchanged
Upper(c) == IF IndexOf(c, LowerChars) > 0 THEN UpperChars[IndexOf(c, LowerChars)] ELSE c

Cases == {"lower", "upper", "capital"}

\* a text written in lower case, in one of three cases
Cased(s, case) ==
  [k \in 1..Len(s) |->
     IF case = "upper" \/ (case = "capital" /\ k = 1) THEN Upper(s[k]) ELSE s[k]]

\* openings that a weekday or ordinal pattern matches: a weekday name and "of" or
\* "in", Weekday, Feria, Ordinary Time, an ordinal and "Day of", Day N of
WeekdayOpenings ==
  {w \o j : w \in WeekdayNames, j \in {<<" ","o","f">>, <<" ","i","n">>}}
    \cup {o \o <<" ","d","a","y"," ","o","f">> : o \in OrdinalNames}
    \cup
  { <<"w","e","e","k","d","a","y">>,
    <<"f","e","r","i","a">>,
    <<"o","r","d","i","n","a","r","y"," ","t","i","m","e">>,
    <<"d","a","y"," ","3"," ","o","f">>,
    <<"d","a","y"," ","1","2"," ","o","f">> }

\* openings that the patterns for the Latin names of Saturday and Sunday match
LatinOpenings ==
  { <<"s","a","b","a","t","o">>,
    <<"d","o","m","i","n","i","c","a">> }

\* openings that a Marian pattern matches
MarianOpenings ==
  { <<"b","l","e","s","s","e","d"," ","v","i","r","g","i","n"," ","m","a","r","y">>,
    <<"b","v","m">>,
    <<"o","u","r"," ","l","a","d","y">>,
    <<"m","a","r","y">>,
    <<"t","h","e"," ","b","l","e","s","s","e","d"," ","v","i","r","g","i","n">> }

\* openings that no pattern matches
ProperOpenings ==
  { <<"s","a","i","n","t"," ","p","e","t","e","r">>,
    <<"c","h","r","i","s","t","m","a","s"," ","d","a","y">>,
    <<"e","a","s","t","e","r"," ","s","u","n","d","a","y">>,
    <<"n","a","t","i","v","i","t","y"," ","o","f"," ","s","a","i","n","t"," ","j","o","h","n">>,
    <<"s","u","n","d","a","y"," ","o","f">>,
    <<"m","o","n","d","a","y"," ","a","f","t","e","r">>,
    <<"d","a","y"," ","o","f">>,
    <<"d","a","y"," ","x"," ","o","f">>,
    <<"e","i","g","h","t","h"," ","d","a","y"," ","o","f">>,
    <<"s","a","i","n","t"," ","m","a","r","y"," ","m","a","g","d","a","l","e","n","e">>,
    <<"m","e","m","o","r","i","a","l"," ","o","f"," ","s","a","i","n","t"," ","m","a","r","y">> }

Openings == WeekdayOpenings \cup LatinOpenings \cup MarianOpenings \cup ProperOpenings

\* endings that qualify a Marian description: one with Saturday in it, one
\* with "Memorial of" and then "Mary", one that ends with "of the Blessed
\* Virgin Mary"
QualifiedEndings ==
  { <<" ","o","n"," ","s","a","t","u","r","d","a","y">>,
    <<" ","m","e","m","o","r","i","a","l"," ","o","f"," ","m","a","r","y"," ","m","o","s","t"," ","h","o","l","y">>,
    <<" ","o","f"," ","t","h","e"," ","b","l","e","s","s","e","d"," ","v","i","r","g","i","n"," ","m","a","r","y">> }

\* what follows the opening; no ending makes a pattern match an opening of
\* ProperOpenings
Endings ==
  QualifiedEndings \cup
  { <<>>,
    <<" ","t","h","e"," ","1","s","t"," ","w","e","e","k">>,
    <<"s">> }

Blanks == {<<>>, <<" ">>}

\* the description that a choice of opening, ending, case and blanks makes
Described(d) == d.lead \o Cased(d.opening \o d.ending, d.case) \o d.trail

InitFeria ==
  /\ InitView
  /\ searchResults = <<>>
  /\ chosen = NoMatch
  /\ given \in [opening : Openings, ending : Endings, case : Cases,
                 lead : Blanks, trail : Blanks]
  /\ result = <<>>

\* isFeria(description)
ClassifyStep ==
  /\ result = <<>>
  /\ result' = <<isFeria(Described(given))>>
  /\ UNCHANGED <<given, view, searchResults, chosen, pages>>

NextFeria == ClassifyStep

SpecFeria == InitFeria /\ [][NextFeria]_vars

(***************************************************************************)
(* The Date of the engine, to the hour: a time value is a number of hours  *)
(* since 1970-01-01T00:00Z, and the time zone of the browser a number of   *)
(* hours east of UTC                                                       *)
(***************************************************************************)
\* the day number of a day of the Gregorian calendar, 0 for 1970-01-01
DayFromCivil(year, month, day) ==
  LET y == IF month <= 2 THEN year - 1 ELSE year
      era == y \div 400
      yoe == y - era * 400
      doy == (153 * (IF month > 2 THEN month - 3 ELSE month + 9) + 2) \div 5 + day - 1
      doe == yoe * 365 + yoe \div 4 - yoe \div 100 + doy
  IN era * 146097 + doe - 719468

\* the year, month (1..12) and day of the month of a day number
CivilFromDay(z) ==
  LET shifted == z + 719468
      era == shifted \div 146097
      doe == shifted - era * 146097
      yoe == (doe - doe \div 1460 + doe \div 36524 - doe \div 146096) \div 365
      doy == doe - (365 * yoe + yoe \div 4 - yoe \div 100)
      mp == (5 * doy + 2) \div 153
      month == IF mp < 10 THEN mp + 3 ELSE mp - 9
  IN [year |-> yoe + era * 400 + (IF month <= 2 THEN 1 ELSE 0),
      month |-> month,
      day |-> doy - (153 * mp + 2) \div 5 + 1]

\* MakeDay: a month index outside 0..11 carries into the year, a day of the
\* month outside the month carries into the months around it
MakeDay(year, monthIndex, date) ==
  DayFromCivil(year + monthIndex \div 12, (monthIndex % 12) + 1, 1) + date - 1

\* new Date(year, monthIndex, date): midnight of the browser's time zone
LocalDate(year, monthIndex, date, tz) == MakeDay(year, monthIndex, date) * 24 - tz

\* String(n) of a natural number
RECURSIVE NumberText(_)
NumberText(n) ==
  IF n < 10 THEN <<DigitChars[n + 1]>>
  ELSE NumberText(n \div 10) \o <<DigitChars[(n % 10) + 1]>>

\* String.prototype.padStart(width, '0')
RECURSIVE PadStart(_, _)
PadStart(text, width) == IF Len(text) >= width THEN text ELSE PadStart(<<"0">> \o text, width)

\* date.toISOString().split('T')[0]: the date of the time value in UTC
toISODate(t) ==
  LET utc == CivilFromDay(t \div 24) IN
  PadStart(NumberText(utc.year), 4) \o <<"-">> \o PadStart(NumberText(utc.month), 2)
    \o <<"-">> \o PadStart(NumberText(utc.day), 2)

\* the time zones of the browser that are studied: New York in winter, UTC,
\* Paris in winter
TimeZones == {0 - 5, 0, 1}

(***************************************************************************)
(* useDateNavigation on its own: a route, a clock and a time zone          *)
(***************************************************************************)
\* /^\d{4}-\d{2}-\d{2}$/
IsDateShaped(text) ==
  /\ Len(text) = 10
  /\ \A k \in {1, 2, 3, 4, 6, 7, 9, 10} : IsDigit(text[k])
  /\ text[5] = "-"
  /\ text[8] = "-"

\* route.query.date, when the query has one
HasDate(query) == "date" \in DOMAIN query

\* selectedDate: the date of the query when it has the shape, else the UTC
\* date of the clock
selectedDateOf(query, now) ==
  IF HasDate(query) /\ query["date"] # <<>> /\ IsDateShaped(query["date"])
    THEN query["date"]
    ELSE toISODate(now)

\* a push of a query that holds the date alone
updateSelectedDateAlone(routeName, query, newDate) ==
  [name |-> routeName, query |-> [k \in {"date"} |-> newDate]]

\* updateSelectedDate(newDate): the argument of router.push
updateSelectedDate(routeName, query, newDate) ==
  [name |-> routeName,
   query |-> [k \in DOMAIN query \cup {"date"} |->
                IF k = "date" THEN newDate ELSE query[k]]]

\* the [year, month, day] of selectedDate.value.split('-').map(Number)
DateNumbers(dateStr) ==
  LET parts == SplitOnDash(dateStr, <<>>) IN
  [year |-> ToNumber(parts[1]), month |-> ToNumber(parts[2]), day |-> ToNumber(parts[3])]

\* the date that goToPrevious (direction -1) or goToNext (direction 1) hands
\* to updateSelectedDate
steppedDate(routeName, dateStr, direction, tz) ==
  LET d == DateNumbers(dateStr) IN
  toISODate(
    IF routeName \in {"Today", "Nerd"}
      THEN LocalDate(d.year, d.month - 1, d.day + direction, tz)
    ELSE IF routeName = "Week"
      THEN LocalDate(d.year, d.month - 1, d.day + 7 * direction, tz)
    ELSE LocalDate(d.year, d.month - 1 + direction, d.day, tz))

RouteNames == {"Today", "Week", "Month", "Nerd"}

\* values of the date parameter of the URL
DateParams ==
  { <<"2","0","2","4","-","1","2","-","2","5">>,
    <<"2","0","2","4","-","0","2","-","2","9">>,
    <<"2","0","2","4","-","0","1","-","3","1">>,
    <<"2","0","2","5","-","0","3","-","0","1">>,
    <<"2","0","2","3","-","0","2","-","2","9">>,
    <<"2","0","2","4","-","1","3","-","4","5">>,
    <<"i","n","v","a","l","i","d","-","d","a","t","e">>,
    <<"2","0","2","4","-","1","-","5">>,
    <<"2","0","2","4","1","2","2","5">>,
    <<"2","0","2","4","-","1","2","-","2","5","T","0","0">>,
    <<>> }

CalendarsParam == <<"A",",","B">>

\* route.query: with or without a date, with or without a selection of calendars
Queries ==
  UNION {[keys -> DateParams \cup {CalendarsParam}] :
           keys \in SUBSET {"date", "calendars"}}

RouteQueries ==
  {q \in Queries :
     /\ HasDate(q) => q["date"] \in DateParams
     /\ "calendars" \in DOMAIN q => q["calendars"] = CalendarsParam}

\* the clock: late on 2024-12-25 and early on 2025-03-01, in UTC
Clocks == {MakeDay(2024, 11, 25) * 24 + 23, MakeDay(2025, 2, 1) * 24 + 1}

\* dates handed to updateSelectedDate
NewDates ==
  { <<"2","0","2","5","-","0","1","-","0","1">>,
    <<"2","0","2","4","-","1","2","-","2","5">> }

InitNavigation ==
  /\ InitView
  /\ searchResults = <<>>
  /\ chosen = NoMatch
  /\ given \in [routeName : RouteNames, query : RouteQueries, now : Clocks,
                 tz : TimeZones]
  /\ result = <<>>

Studied(outcome) ==
  /\ result = <<>>
  /\ result' = <<outcome>>
  /\ UNCHANGED <<given, view, searchResults, chosen, pages>>

\* selectedDate.value is read
SelectedDateStep ==
  Studied([did |-> "selectedDate",
           value |-> selectedDateOf(given.query, given.now)])

UpdateStep(newDate) ==
  Studied([did |-> "updateSelectedDate", newDate |-> newDate,
           push |-> updateSelectedDate(given.routeName, given.query, newDate)])

Stepped(direction) ==
  updateSelectedDate(given.routeName, given.query,
                     steppedDate(given.routeName,
                                 selectedDateOf(given.query, given.now),
                                 direction, given.tz))

GoToPreviousStep == Studied([did |-> "goToPrevious", push |-> Stepped(0 - 1)])

GoToNextStep == Studied([did |-> "goToNext", push |-> Stepped(1)])

NextNavigation ==
  \/ SelectedDateStep
  \/ \E newDate \in NewDates : UpdateStep(newDate)
  \/ GoToPreviousStep
  \/ GoToNextStep

SpecNavigation == InitNavigation /\ [][NextNavigation]_vars

(***************************************************************************)
(* addDays and daysBetween (utils/dateUtils) on their own                  *)
(***************************************************************************)
\* addDays(dateStr, days) in a browser of time zone tz
addDays(dateStr, days, tz) ==
  LET d == DateNumbers(dateStr)
      date == LocalDate(d.year, d.month - 1, d.day, tz)
      utc == CivilFromDay(date \div 24)
      \* date.setUTCDate(date.getUTCDate() + days) keeps the time within the day
      moved == MakeDay(utc.year, utc.month - 1, utc.day + days) * 24 + (date % 24)
      after == CivilFromDay(moved \div 24)
  IN NumberText(after.year) \o <<"-">> \o PadStart(NumberText(after.month), 2)
       \o <<"-">> \o PadStart(NumberText(after.day), 2)

\* new Date('YYYY-MM-DD').getTime() of a date of the calendar: midnight in UTC
ParsedDate(dateStr) ==
  LET d == DateNumbers(dateStr) IN DayFromCivil(d.year, d.month, d.day) * 24

\* Math.ceil(a / b) for b > 0
Ceil(a, b) == 0 - ((0 - a) \div b)

daysBetween(date1, date2) == Ceil(ParsedDate(date2) - ParsedDate(date1), 24)

\* dates at the ends of months and years, in leap years and out of them
StartDates ==
  { <<"2","0","2","5","-","0","1","-","0","1">>,
    <<"2","0","2","5","-","0","1","-","3","1">>,
    <<"2","0","2","4","-","1","2","-","3","1">>,
    <<"2","0","2","4","-","0","2","-","2","8">>,
    <<"2","0","2","4","-","0","2","-","2","9">>,
    <<"2","0","2","3","-","0","2","-","2","8">>,
    <<"2","0","2","5","-","0","6","-","1","5">>,
    <<"2","0","0","0","-","0","3","-","0","1">> }

\* numbers of days to add
DayCounts == {0 - 366, 0 - 31, 0 - 1, 0, 1, 5, 28, 31, 365, 366}

InitDays ==
  /\ InitView
  /\ searchResults = <<>>
  /\ chosen = NoMatch
  /\ given \in [date : StartDates, days : DayCounts, tz : TimeZones]
  /\ result = <<>>

\* daysBetween(date, addDays(date, days))
AddDaysStep ==
  /\ result = <<>>
  /\ result' = <<[added |-> addDays(given.date, given.days, given.tz),
                  between |-> daysBetween(given.date,
                                          addDays(given.date, given.days, given.tz))]>>
  /\ UNCHANGED <<given, view, searchResults, chosen, pages>>

NextDays == AddDaysStep

SpecDays == InitDays /\ [][NextDays]_vars

(***************************************************************************)
(* TodayView: loadDayInfo and its watchers. The controller that invocation *)
(* i creates is controller i; its signal is handed to no request, so an    *)
(* abort settles nothing and no lookup fails with an AbortError.           *)
(***************************************************************************)
MaxLoads == 4

\* the watchers that call loadDayInfo when the date of the route changes: two
\* on route.query.date and one on selectedDate
DateWatchers == 1..3

\* loadDayInfo up to its await, on the refs and the invocations so far
loadDayInfo(page, selected, date) ==
  IF Len(selected) = 0 THEN page
  ELSE [todayView |->
          [page.todayView EXCEPT !.abortController = Len(page.loads) + 1,
                                 !.loading = TRUE],
        loads |->
          Append(IF page.todayView.abortController # 0
                   THEN [page.loads EXCEPT ![page.todayView.abortController].aborted = TRUE]
                   ELSE page.loads,
                 [pc |-> "lookups", date |-> date, cals |-> selected,
                  pending |-> Range(selected), newMap |-> EmptyMap,
                  aborted |-> FALSE])]

\* loadDayInfo called once by each of n watchers, one after the other
RECURSIVE loadDayInfoTimes(_, _, _, _)
loadDayInfoTimes(n, page, selected, date) ==
  IF n = 0 THEN page
  ELSE loadDayInfoTimes(n - 1, loadDayInfo(page, selected, date), selected, date)

\* the refs and the invocations become what a step made of them
TodayBecomes(page) ==
  /\ Len(page.loads) <= MaxLoads
  /\ todayView' = page.todayView
  /\ loads' = page.loads

ThisPage == [todayView |-> todayView, loads |-> loads]

\* what the steps of TodayView leave alone
besideToday ==
  <<calendarData, feastComparisons, isLoading, error, runs, started, published,
    lastPublish, lastSearch, searchResults, chosen, given, result, state,
    abortController, searches, grids, catalog>>

\* onMounted: displayedDate.value = selectedDate.value, then loadDayInfo()
TodayMounted ==
  /\ ~mounted
  /\ mounted' = TRUE
  /\ TodayBecomes(loadDayInfo([ThisPage EXCEPT !.todayView.displayedDate = <<selectedDate>>],
                              selectedCalendars, selectedDate))
  /\ UNCHANGED <<selectedCalendars, selectedDate>>
  /\ UNCHANGED besideToday

\* watch(selectedCalendars, loadDayInfo, { deep: true }) after toggleCalendar
TodayToggled(calendarName) ==
  LET selected ==
        IF calendarName \in Range(selectedCalendars)
          THEN FilterSeq(selectedCalendars, Range(selectedCalendars) \ {calendarName})
          ELSE Append(selectedCalendars, calendarName)
  IN /\ mounted
     /\ selectedCalendars' = selected
     /\ TodayBecomes(loadDayInfo(ThisPage, selected, selectedDate))
     /\ UNCHANGED <<selectedDate, mounted>>
     /\ UNCHANGED besideToday

\* the date of the route changes: the three watchers run in the same flush
TodayDateChanged(date) ==
  /\ mounted
  /\ date \in Dates \ {selectedDate}
  /\ selectedDate' = date
  /\ TodayBecomes(loadDayInfoTimes(Cardinality(DateWatchers), ThisPage,
                                   selectedCalendars, date))
  /\ UNCHANGED <<selectedCalendars, mounted>>
  /\ UNCHANGED besideToday

\* a map with one more key
WithKey(map, key, value) ==
  [k \in DOMAIN map \cup {key} |-> IF k = key THEN value ELSE map[k]]

\* the refs after invocation i got past its Promise.all: the test of the
\* controller that abortController holds now, the update, and the finally block
AfterLookups(refs, invocations, newMap) ==
  LET cancelled ==
        refs.abortController # 0 /\ invocations[refs.abortController].aborted
      shown ==
        IF cancelled THEN refs
        ELSE [refs EXCEPT !.displayedData = newMap,
                          !.displayedDate = <<selectedDate>>,
                          !.displayedCalendars = selectedCalendars]
  IN [shown EXCEPT !.loading = FALSE, !.abortController = 0]

\* api.getDayInfo of invocation i for calendarName settles; when it is the last
\* one, Promise.all resolves and the invocation runs to its end
DayInfoSettle(i, calendarName, outcome) ==
  /\ i \in DOMAIN loads
  /\ loads[i].pc = "lookups"
  /\ calendarName \in loads[i].pending
  /\ LET newMap == IF outcome = "ok"
                     THEN WithKey(loads[i].newMap, calendarName,
                                  getDayInfo(calendarName, loads[i].date))
                     ELSE loads[i].newMap
         pending == loads[i].pending \ {calendarName}
     IN IF pending # {}
          THEN /\ loads' = [loads EXCEPT ![i].newMap = newMap, ![i].pending = pending]
               /\ UNCHANGED todayView
          ELSE /\ loads' = [loads EXCEPT ![i].newMap = newMap, ![i].pending = pending,
                                         ![i].pc = "done"]
               /\ todayView' = AfterLookups(todayView, loads, newMap)
  /\ UNCHANGED <<selectedCalendars, selectedDate, mounted>>
  /\ UNCHANGED besideToday

NextToday ==
  \/ TodayMounted
  \/ \E c \in Range(Catalog) : TodayToggled(c)
  \/ \E date \in Dates : TodayDateChanged(date)
  \/ \E i \in DOMAIN loads : \E c \in Range(Catalog) : \E o \in LookupOutcomes :
       DayInfoSettle(i, c, o)

SpecToday == Init /\ [][NextToday]_vars

(***************************************************************************)
(* useSearch: the shared search state, performSearch and clearResults. The *)
(* controller that invocation k of performSearch creates is controller k;  *)
(* its signal is handed to no request.                                     *)
(***************************************************************************)
MaxSearches == 2

\* the texts typed into the search box
SearchTexts == {<<>>, <<" ">>, <<"a">>, <<"b">>}

Found(name, score) ==
  [name |-> name, description |-> name, rank |-> "Memorial", score |-> score,
   color |-> "white"]

\* what api.searchFeasts(calendarName, query) resolves to: the service answers
\* a query the same way each time, in an order of its own
searchFeasts(calendarName, query) ==
  IF calendarName = "A"
    THEN <<Found(query \o <<"y">>, 50), Found(query \o <<"x">>, 80),
           Found(query \o <<"w">>, 80)>>
    ELSE <<Found(query \o <<"z">>, 70)>>

\* results.map((result) => ({ ...result, calendarName }))
WithCalendarName(results, calendarName) ==
  [i \in DOMAIN results |->
     [name |-> results[i].name, description |-> results[i].description,
      rank |-> results[i].rank, score |-> results[i].score,
      color |-> results[i].color, calendarName |-> calendarName]]

\* allResults.flat(), in the order of the calendars searched
RECURSIVE Flat(_, _)
Flat(cals, allResults) ==
  IF cals = <<>> THEN <<>>
  ELSE allResults[Head(cals)] \o Flat(Tail(cals), allResults)

\* the comparator of deduplicateResults: calendar name, then score (higher
\* first), then name; calendar names are one character long
CompareResults(a, b) ==
  IF localeCompare(<<a.calendarName>>, <<b.calendarName>>) # 0
    THEN localeCompare(<<a.calendarName>>, <<b.calendarName>>)
  ELSE IF b.score - a.score # 0 THEN b.score - a.score
  ELSE localeCompare(a.name, b.name)

\* results.sort(comparator), which is stable: a result comes after those that
\* compare lower and after those that compare equal and stood before it
ComesBefore(results, j, i) ==
  \/ CompareResults(results[j], results[i]) < 0
  \/ CompareResults(results[j], results[i]) = 0 /\ j < i

\* the pairs <<j, i>> of positions where the result at j comes before the one at i
Earlier(results) ==
  {pair \in (DOMAIN results) \X (DOMAIN results) :
     ComesBefore(results, pair[1], pair[2])}

\* each result at the place that the number of results before it gives
Placed(results, earlier) ==
  [p \in DOMAIN results |->
     results[CHOOSE i \in DOMAIN results :
               Cardinality({j \in DOMAIN results : <<j, i>> \in earlier}) = p - 1]]

\* the array and the comparisons are evaluated once
deduplicateResults(results) ==
  CHOOSE sorted \in
    UNION {{Placed(array, earlier) : earlier \in {Earlier(array)}} : array \in {results}} :
    TRUE

\* what the steps of useSearch leave alone
besideSearch ==
  <<selectedDate, mounted, calendarData, feastComparisons, isLoading, error, runs,
    started, published, lastPublish, lastSearch, searchResults, chosen, given,
    result, todayView, loads, grids, catalog>>

\* abortController.abort() when there is a controller
Aborted(invocations, controller) ==
  IF controller # 0 THEN [invocations EXCEPT ![controller].aborted = TRUE]
  ELSE invocations

\* clearResults on the state and the invocations
clearResults(st, invocations) ==
  [state |-> [st EXCEPT !.results = <<>>, !.error = "null", !.hasSearched = FALSE],
   searches |-> Aborted(invocations, abortController)]

\* the setter of searchQuery
SetSearchQuery(value) ==
  /\ value # state.query
  /\ LET typed == [state EXCEPT !.query = value]
     IN IF Trim(value) = <<>>
          THEN /\ state' = clearResults(typed, searches).state
               /\ searches' = clearResults(typed, searches).searches
          ELSE /\ state' = typed
               /\ UNCHANGED searches
  /\ UNCHANGED <<abortController, selectedCalendars>>
  /\ UNCHANGED besideSearch

\* performSearch up to its await
PerformSearch ==
  LET query == Trim(state.query)
  IN /\ query # <<>>
     /\ IF Len(selectedCalendars) = 0
          THEN /\ state' = [state EXCEPT
                              !.error = "Please select at least one calendar to search"]
               /\ UNCHANGED <<abortController, searches>>
          ELSE /\ Len(searches) < MaxSearches
               /\ abortController' = Len(searches) + 1
               /\ state' = [state EXCEPT !.loading = TRUE, !.error = "null",
                                         !.hasSearched = TRUE]
               /\ searches' =
                    Append(Aborted(searches, abortController),
                           [pc |-> "searching", query |-> query,
                            cals |-> selectedCalendars,
                            pending |-> Range(selectedCalendars),
                            allResults |-> [c \in Range(selectedCalendars) |-> <<>>],
                            aborted |-> FALSE])
     /\ UNCHANGED selectedCalendars
     /\ UNCHANGED besideSearch

\* the state after an invocation got past its Promise.all: the test of the
\* controller that abortController holds now, then the results. No promise of
\* searchPromises rejects, so the catch block of performSearch is never entered.
AfterSearches(st, invocations, cals, allResults) ==
  IF invocations[abortController].aborted THEN st
  ELSE [st EXCEPT !.results = deduplicateResults(Flat(cals, allResults)),
                  !.loading = FALSE]

\* api.searchFeasts of invocation k for calendarName settles; when it is the
\* last one, Promise.all resolves and the invocation runs to its end
FeastsSettle(k, calendarName, outcome) ==
  /\ k \in DOMAIN searches
  /\ searches[k].pc = "searching"
  /\ calendarName \in searches[k].pending
  /\ LET allResults ==
           [searches[k].allResults EXCEPT ![calendarName] =
              IF outcome = "ok"
                THEN WithCalendarName(searchFeasts(calendarName, searches[k].query),
                                      calendarName)
                ELSE <<>>]
         pending == searches[k].pending \ {calendarName}
     IN IF pending # {}
          THEN /\ searches' = [searches EXCEPT ![k].allResults = allResults,
                                               ![k].pending = pending]
               /\ UNCHANGED state
          ELSE /\ searches' = [searches EXCEPT ![k].allResults = allResults,
                                               ![k].pending = pending,
                                               ![k].pc = "done"]
               /\ state' = AfterSearches(state, searches, searches[k].cals, allResults)
  /\ UNCHANGED <<abortController, selectedCalendars>>
  /\ UNCHANGED besideSearch

ClearResults ==
  /\ state' = clearResults(state, searches).state
  /\ searches' = clearResults(state, searches).searches
  /\ UNCHANGED <<abortController, selectedCalendars>>
  /\ UNCHANGED besideSearch

\* clearSearch: state.value.query = '', then clearResults()
ClearSearch ==
  /\ state' = clearResults([state EXCEPT !.query = <<>>], searches).state
  /\ searches' = clearResults(state, searches).searches
  /\ UNCHANGED <<abortController, selectedCalendars>>
  /\ UNCHANGED besideSearch

\* the calendar selection that performSearch reads is emptied or filled again
SearchSelection(selected) ==
  /\ selected # selectedCalendars
  /\ selectedCalendars' = selected
  /\ UNCHANGED <<state, abortController, searches>>
  /\ UNCHANGED besideSearch

Settles ==
  \E k \in DOMAIN searches : \E c \in Range(Catalog) : \E o \in LookupOutcomes :
    FeastsSettle(k, c, o)

NextSearch ==
  \/ \E value \in SearchTexts : SetSearchQuery(value)
  \/ PerformSearch
  \/ Settles
  \/ ClearResults
  \/ ClearSearch
  \/ \E selected \in {<<>>, Catalog} : SearchSelection(selected)

SpecSearch == Init /\ [][NextSearch]_vars

\* every call of api.searchFeasts settles
SpecSearchSettling == SpecSearch /\ WF_vars(Settles)

(***************************************************************************)
(* WeekView: loadWeekInfo and its watchers. Dates are day numbers. The     *)
(* loading guard lets one invocation run at a time; it awaits its lookups  *)
(* one after the other, date by date and calendar by calendar.             *)
(***************************************************************************)
\* lookups of WeekView that fail, and changes of the date or of the selection
\* that come while it is loading, in one behaviour
MaxWeekDisturbances == 2

\* one more disturbance when the step is one
Disturbed(is) ==
  /\ is => weekDisturbed < MaxWeekDisturbances
  /\ weekDisturbed' = IF is THEN weekDisturbed + 1 ELSE weekDisturbed

\* for (let i = -3; i <= 3; i++)
WeekOffsets == <<0 - 3, 0 - 2, 0 - 1, 0, 1, 2, 3>>

\* new Date(year, month - 1, day) is the local midnight of the day, in hours
\* since the epoch, where the clock is tz hours ahead of UTC; toISOString()
\* gives the UTC day of centerDate.getTime() + i * 24 * 60 * 60 * 1000
WeekDay(centerDate, i, tz) == (centerDate * 24 - tz + i * 24) \div 24

\* the watchers that call loadWeekInfo when the date of the route changes: one
\* on route.query.date and one on selectedDate
WeekDateWatchers == 1..2

\* the first position, from the one given, whose date has a calendar to look
\* up; the dates of an empty selection are passed over
RECURSIVE NextLookup(_, _)
NextLookup(load, selected) ==
  IF load.at > Len(WeekOffsets) THEN load
  ELSE IF load.calendar <= Len(load.cals) THEN load
  ELSE NextLookup([load EXCEPT !.at = @ + 1, !.calendar = 1, !.cals = selected],
                  selected)

\* loadWeekInfo up to its first await, on the refs and the invocation in flight
loadWeekInfo(week, selected, date) ==
  IF week.weekView.loading THEN week
  ELSE IF Len(selected) = 0
    THEN [week EXCEPT !.weekView.displayedWeekData = <<>>,
                      !.weekView.displayedCalendars = <<>>]
  ELSE [weekView |-> [week.weekView EXCEPT !.abortController = 1, !.loading = TRUE],
        weekLoad |-> [pc |-> "lookups", centerDate |-> date, at |-> 1,
                      calendar |-> 1, cals |-> selected, newWeekMap |-> EmptyMap]]

RECURSIVE loadWeekInfoTimes(_, _, _, _)
loadWeekInfoTimes(n, week, selected, date) ==
  IF n = 0 THEN week
  ELSE loadWeekInfoTimes(n - 1, loadWeekInfo(week, selected, date), selected, date)

ThisWeek == [weekView |-> weekView, weekLoad |-> weekLoad]

WeekBecomes(week) ==
  /\ weekView' = week.weekView
  /\ weekLoad' = week.weekLoad

\* what the steps of WeekView leave alone
besideWeek ==
  <<calendarData, feastComparisons, isLoading, error, runs, started, published,
    lastPublish, lastSearch, searchResults, chosen, given, result, todayView, loads,
    state, abortController, searches, monthInfoMap, monthLoading, monthRuns, catalog>>

\* the setup runs the immediate watcher of selectedCalendars; onMounted then
\* sets displayedDate and calls loadWeekInfo again
WeekMounted ==
  /\ ~mounted
  /\ mounted' = TRUE
  /\ LET setup == loadWeekInfo(ThisWeek, selectedCalendars, selectedDate)
         shown == [setup EXCEPT !.weekView.displayedDate = <<selectedDate>>]
     IN WeekBecomes(IF Len(selectedCalendars) > 0
                      THEN loadWeekInfo(shown, selectedCalendars, selectedDate)
                      ELSE shown)
  /\ UNCHANGED <<selectedCalendars, selectedDate, weekDisturbed>>
  /\ UNCHANGED besideWeek

\* watch(selectedCalendars, ...) after toggleCalendar
WeekToggled(calendarName) ==
  LET selected ==
        IF calendarName \in Range(selectedCalendars)
          THEN FilterSeq(selectedCalendars, Range(selectedCalendars) \ {calendarName})
          ELSE Append(selectedCalendars, calendarName)
  IN /\ mounted
     /\ selectedCalendars' = selected
     /\ WeekBecomes(loadWeekInfo(ThisWeek, selected, selectedDate))
     /\ Disturbed(weekView.loading)
     /\ UNCHANGED <<selectedDate, mounted>>
     /\ UNCHANGED besideWeek

\* the date of the route changes: both watchers run in the same flush
WeekDateChanged(date) ==
  /\ mounted
  /\ date \in Dates \ {selectedDate}
  /\ selectedDate' = date
  /\ WeekBecomes(loadWeekInfoTimes(Cardinality(WeekDateWatchers), ThisWeek,
                                   selectedCalendars, date))
  /\ Disturbed(weekView.loading)
  /\ UNCHANGED <<selectedCalendars, mounted>>
  /\ UNCHANGED besideWeek

\* newWeekMap[dateString] = dayMap with one more entry of dayMap; a date gets
\* its key when its dayMap has an entry
WithDayInfo(weekMap, date, calendarName, dayInfo) ==
  WithKey(weekMap, date,
          WithKey(IF date \in DOMAIN weekMap THEN weekMap[date] ELSE EmptyMap,
                  calendarName, dayInfo))

\* the refs after the invocation got through its loops: its controller is the
\* one abortController holds and nothing aborted it
AfterWeek(refs, newWeekMap) ==
  [refs EXCEPT !.displayedWeekData = <<newWeekMap>>,
               !.displayedCalendars = selectedCalendars,
               !.displayedDate = <<selectedDate>>,
               !.loading = FALSE]

\* the api.getDayInfo that loadWeekInfo awaits settles; the invocation goes on
\* to its next lookup or, after the last one, to its end
WeekSettle(outcome, tz) ==
  /\ weekLoad.pc = "lookups"
  /\ Disturbed(outcome = "failed")
  /\ LET date == WeekDay(weekLoad.centerDate, WeekOffsets[weekLoad.at], tz)
         calendarName == weekLoad.cals[weekLoad.calendar]
         newWeekMap ==
           IF outcome = "ok"
             THEN WithDayInfo(weekLoad.newWeekMap, date, calendarName,
                              getDayInfo(calendarName, date))
             ELSE weekLoad.newWeekMap
         next == NextLookup([weekLoad EXCEPT !.newWeekMap = newWeekMap,
                                             !.calendar = @ + 1],
                            selectedCalendars)
     IN IF next.at <= Len(WeekOffsets)
          THEN /\ weekLoad' = next
               /\ UNCHANGED weekView
          ELSE /\ weekLoad' = Idle
               /\ weekView' = AfterWeek(weekView, newWeekMap)
  /\ UNCHANGED <<selectedCalendars, selectedDate, mounted>>
  /\ UNCHANGED besideWeek

\* the browser's clock is on UTC
NextWeek ==
  \/ WeekMounted
  \/ \E c \in Range(Catalog) : WeekToggled(c)
  \/ \E date \in Dates : WeekDateChanged(date)
  \/ \E o \in LookupOutcomes : WeekSettle(o, 0)

SpecWeek == Init /\ [][NextWeek]_vars

(***************************************************************************)
(* MonthView: loadMonthData and its watchers. Dates are day numbers and a  *)
(* month is MonthDays days long. No guard keeps invocations apart: each    *)
(* one awaits its lookups one after the other and writes into the map that *)
(* monthInfoMap holds when the lookup settles.                             *)
(***************************************************************************)
\* invocations of loadMonthData in one behaviour
MaxMonthRuns == 3

\* days of a month
MonthDays == 2

\* months the date navigation moves between
MaxMonths == 2

MonthViewDates == 0..(MonthDays * MaxMonths - 1)

\* monthDates: the dates of the month of the selected date, in order
monthDates(date) ==
  [i \in 1..MonthDays |-> (date \div MonthDays) * MonthDays + i - 1]

\* the selection as it was when the run came to its first date
CalendarsOfRun(run, selected) == run.cals

\* the array that the loop over the calendars of a date iterates:
\* selectedCalendars.value of the moment at which the loop starts
CalendarsOfDate(run, selected) == selected

\* monthInfoMap.value[date] = {} for the date the run comes to, and for the
\* dates it passes over because the selection is empty
RECURSIVE NextMonthLookup(_, _, _)
NextMonthLookup(run, map, selected) ==
  IF run.calendar <= Len(run.cals) THEN [run |-> run, map |-> map]
  ELSE IF run.at = Len(run.dates) THEN [run |-> [run EXCEPT !.pc = "done"], map |-> map]
  ELSE NextMonthLookup([run EXCEPT !.at = @ + 1, !.calendar = 1,
                                   !.cals = CalendarsOfDate(run, selected)],
                       WithKey(map, run.dates[run.at + 1], EmptyMap),
                       selected)

\* loadMonthData up to its first await, on the refs and the invocations so far
loadMonthData(month, selected, date) ==
  IF Len(selected) = 0 \/ Len(monthDates(date)) = 0 THEN month
  ELSE [monthLoading |-> TRUE,
        monthInfoMap |-> WithKey(EmptyMap, monthDates(date)[1], EmptyMap),
        monthRuns |-> Append(month.monthRuns,
                             [pc |-> "lookups", dates |-> monthDates(date), at |-> 1,
                              cals |-> selected, calendar |-> 1,
                              failed |-> FALSE, reset |-> FALSE])]

ThisMonth ==
  [monthLoading |-> monthLoading, monthInfoMap |-> monthInfoMap, monthRuns |-> monthRuns]

MonthBecomes(month) ==
  /\ Len(month.monthRuns) <= MaxMonthRuns
  /\ monthLoading' = month.monthLoading
  /\ monthInfoMap' = month.monthInfoMap
  /\ monthRuns' = month.monthRuns

\* what the steps of MonthView leave alone
besideMonth ==
  <<calendarData, feastComparisons, isLoading, error, runs, started, published,
    lastPublish, lastSearch, searchResults, chosen, given, result, todayView, loads,
    state, abortController, searches, weekView, weekLoad, weekDisturbed, calendars,
    catalogState, route>>

\* the setup runs the immediate watcher of selectedDate, and onMounted awaits
\* loadCalendars
MonthMounted ==
  /\ ~mounted
  /\ mounted' = TRUE
  /\ catalogLoads' = catalogLoads + 1
  /\ MonthBecomes(loadMonthData(ThisMonth, selectedCalendars, selectedDate))
  /\ UNCHANGED <<selectedCalendars, selectedDate>>
  /\ UNCHANGED besideMonth

\* onMounted after its await: a URL without calendars leaves the selection as
\* it is, and loadMonthData is called when calendars are selected
MonthCatalogLoaded ==
  /\ mounted
  /\ catalogLoads > 0
  /\ catalogLoads' = catalogLoads - 1
  /\ MonthBecomes(loadMonthData(ThisMonth, selectedCalendars, selectedDate))
  /\ UNCHANGED <<selectedCalendars, selectedDate, mounted>>
  /\ UNCHANGED besideMonth

\* watch(selectedCalendars, ...) after toggleCalendar
MonthToggled(calendarName) ==
  LET selected ==
        IF calendarName \in Range(selectedCalendars)
          THEN FilterSeq(selectedCalendars, Range(selectedCalendars) \ {calendarName})
          ELSE Append(selectedCalendars, calendarName)
  IN /\ mounted
     /\ selectedCalendars' = selected
     /\ MonthBecomes(loadMonthData(ThisMonth, selected, selectedDate))
     /\ UNCHANGED <<selectedDate, mounted, catalogLoads>>
     /\ UNCHANGED besideMonth

\* watch(selectedDate, ...) after the date of the route changed
MonthDateChanged(date) ==
  /\ mounted
  /\ date \in MonthViewDates \ {selectedDate}
  /\ selectedDate' = date
  /\ MonthBecomes(loadMonthData(ThisMonth, selectedCalendars, date))
  /\ UNCHANGED <<selectedCalendars, mounted, catalogLoads>>
  /\ UNCHANGED besideMonth

\* monthInfoMap.value[date][calendar] = dayInfo on the map that the ref holds
\* now: a TypeError, caught with the lookup's errors, when it has no such date
WriteDayInfo(map, date, calendarName, dayInfo) ==
  IF date \in DOMAIN map
    THEN WithKey(map, date, WithKey(map[date], calendarName, dayInfo))
    ELSE map

\* the api.getDayInfo that invocation r awaits settles; the invocation goes on
\* to its next lookup or, after the last one, to its finally block
MonthSettle(r, outcome) ==
  /\ r \in DOMAIN monthRuns
  /\ monthRuns[r].pc = "lookups"
  /\ LET run == monthRuns[r]
         date == run.dates[run.at]
         calendarName == run.cals[run.calendar]
         written ==
           IF outcome = "ok"
             THEN WriteDayInfo(monthInfoMap, date, calendarName,
                               getDayInfo(calendarName, date))
             ELSE monthInfoMap
         next ==
           NextMonthLookup([run EXCEPT !.calendar = @ + 1,
                                       !.failed = @ \/ outcome = "failed"],
                           written, selectedCalendars)
     IN /\ monthRuns' =
             [monthRuns EXCEPT ![r] =
                [next.run EXCEPT !.reset =
                   @ \/ \E d \in DOMAIN written : written[d] # EmptyMap /\ next.map[d] = EmptyMap]]
        /\ monthInfoMap' = next.map
        /\ monthLoading' = IF next.run.pc = "done" THEN FALSE ELSE monthLoading
  /\ UNCHANGED <<selectedCalendars, selectedDate, mounted, catalogLoads>>
  /\ UNCHANGED besideMonth

NextMonth ==
  \/ MonthMounted
  \/ MonthCatalogLoaded
  \/ \E c \in Range(Catalog) : MonthToggled(c)
  \/ \E date \in MonthViewDates : MonthDateChanged(date)
  \/ \E r \in DOMAIN monthRuns : \E o \in LookupOutcomes : MonthSettle(r, o)

SpecMonth == Init /\ [][NextMonth]_vars

(***************************************************************************)
(* Properties                                                              *)
(***************************************************************************)
NoRunInFlight == \A r \in RunIds : ~InFlight(r)

\* C1: a run that a newer run has superseded never assigns feastComparisons:
\* whoever assigned it last was, at that moment, the run started last.
C1_StaleRunNeverPublishes == published.by = published.latest

\* C7: a trigger with no calendar selected leaves the observable result empty
\* and without error, whatever an earlier run had published: once every run
\* has finished, emptying the selection empties feastComparisons.
C7_EmptySelectionEmptiesResult ==
  [][(NoRunInFlight /\ selectedCalendars # <<>> /\ selectedCalendars' = <<>>)
       => (feastComparisons' = <<>> /\ error' = "")]_vars

\* C10: the best match of a non-empty candidate list is a candidate of the
\* list whose score no other candidate exceeds, and the first such candidate
\* in list order: every candidate before it scores strictly less.
C10_BestIsFirstMaximum ==
  chosen # NoMatch =>
    \E i \in DOMAIN searchResults :
      /\ chosen = searchResults[i]
      /\ \A j \in DOMAIN searchResults : searchResults[j].score <= chosen.score
      /\ \A j \in 1..(i - 1) : searchResults[j].score < chosen.score

\* a list whose maximum score is shared by two different candidates has been reduced
C10_TieReduced ==
  /\ chosen # NoMatch
  /\ \E i, j \in DOMAIN searchResults :
       /\ i < j
       /\ searchResults[i] # searchResults[j]
       /\ searchResults[i].score = searchResults[j].score
       /\ \A k \in DOMAIN searchResults : searchResults[k].score <= searchResults[i].score

\* the feasts of the engine: those a run in flight is building and those published
FeastsOfRun(r) == Range(runs[r].allFeasts)

AllFeastsInPlay == Range(feastComparisons) \cup UNION {FeastsOfRun(r) : r \in RunIds}

IsFound(comparison, cal) ==
  cal \in DOMAIN comparison.calendars /\ ~comparison.calendars[cal].present

\* C3: the baseCalendar of every feast, while its run searches and once it is
\* published, is a calendar whose recorded status for that feast is Present;
\* no search outcome ever replaces that entry.
C3_BaseCalendarIsPresent ==
  \A f \in AllFeastsInPlay :
    /\ f.baseCalendar \in DOMAIN f.calendars
    /\ f.calendars[f.baseCalendar].present
    /\ getFeastStatus(f, f.baseCalendar) = "present"

\* a published feast whose search in another calendar was accepted
C3_FoundBesideBase ==
  \E f \in Range(feastComparisons) :
    \E c \in DOMAIN f.calendars : c # f.baseCalendar /\ IsFound(f, c)

\* the search that has just settled, and the feast it was for as the step left it
JustSearched == lastSearch.run # 0

SearchedFeasts ==
  IF lastPublish.by = lastSearch.run THEN feastComparisons
  ELSE runs[lastSearch.run].allFeasts

SearchedFeast == SearchedFeasts[FeastIndex(SearchedFeasts, lastSearch.feast)]

AcceptedSoFar ==
  IF lastPublish.by = lastSearch.run THEN published.accepted
  ELSE runs[lastSearch.run].accepted

PassedThreshold == lastSearch.kind = "some" /\ lastSearch.best > AcceptThreshold

\* C4: a calendar is FoundElsewhere for a feast only if a search for that
\* (feast, calendar) returned candidates whose highest score exceeds 0.9; a
\* search whose highest score is 0.9 or less, or that returns no candidate,
\* leaves the calendar absent for the feast.
C4_FoundOnlyAboveThreshold ==
  /\ \A r \in RunIds : \A f \in FeastsOfRun(r) : \A c \in DOMAIN f.calendars :
       IsFound(f, c) => <<f.name, c>> \in runs[r].accepted
  /\ \A f \in Range(feastComparisons) : \A c \in DOMAIN f.calendars :
       IsFound(f, c) => <<f.name, c>> \in published.accepted
  /\ (JustSearched /\ lastSearch.kind # "threw" /\ ~PassedThreshold
        /\ <<lastSearch.feast, lastSearch.calendar>> \notin AcceptedSoFar)
       => getFeastStatus(SearchedFeast, lastSearch.calendar) = "absent"

\* a search whose best candidate scores exactly 0.9 has settled in a run that
\* accepted another search
C4_RejectedAtThreshold ==
  /\ JustSearched
  /\ lastSearch.kind = "some"
  /\ lastSearch.best = AcceptThreshold
  /\ getFeastStatus(SearchedFeast, lastSearch.calendar) = "absent"
  /\ \E f \in Range(SearchedFeasts) : \E c \in DOMAIN f.calendars : IsFound(f, c)

\* the feasts of run r as a step leaves them: published, or still being searched
FeastsAfter(r) ==
  IF lastPublish'.by = r THEN feastComparisons' ELSE runs'[r].allFeasts

\* after entry k of its feasts, run r still owes a search to a selected calendar
LaterOwed(r, k) ==
  \E j \in (k + 1)..Len(runs[r].allFeasts) :
    \E c \in Range(selectedCalendars) : ~IsPresent(runs[r].allFeasts[j], c)

SearchThrewStep(r) ==
  LET run == runs[r]
      k == run.feastIdx
      feast == run.allFeasts[k].name
      calendar == Head(run.toSearch)
      after == FeastsAfter(r)
  IN /\ Range(after) = Range(run.allFeasts)
     /\ <<feast, calendar>> \notin run.accepted
          => getFeastStatus(after[FeastIndex(after, feast)], calendar) = "absent"
     /\ error' = error
     /\ IF Tail(run.toSearch) # <<>>
          THEN /\ runs'[r].pc = "search"
               /\ runs'[r].log = Append(run.log, <<feast, Head(Tail(run.toSearch))>>)
        ELSE IF LaterOwed(r, k)
          THEN /\ runs'[r].pc = "search"
               /\ Len(runs'[r].log) = Len(run.log) + 1
               /\ runs'[r].feastIdx > k
        ELSE lastPublish'.by = r

\* C6: when the search for a (feast, calendar) fails, the calendar is left
\* absent for that feast, every status already recorded in the run is
\* unchanged, no error is raised, and the run goes on: it issues the next
\* search it owes, or publishes when it owes none.
C6_FailedSearchLeavesAbsent ==
  [][\A r \in RunIds :
       (lastSearch'.run = r /\ lastSearch'.kind = "threw") => SearchThrewStep(r)]_vars

\* a search has thrown and its run has issued the search that follows it
C6_ThrewThenSearchedOn ==
  /\ JustSearched
  /\ lastSearch.kind = "threw"
  /\ runs[lastSearch.run].pc = "search"
  /\ Len(runs[lastSearch.run].log) = lastSearch.seq + 1

\* a run has just published, it is the only run ever started, and the
\* selection is still the one it was started with
UndisturbedPublish ==
  lastPublish.by # 0 /\ started = 1 /\ lastPublish.selected = lastPublish.cals

\* C2, as the specification states it: after a completed run (here one that
\* no trigger disturbed) the status map of every published feast has an entry
\* for every calendar of the selection, an absent calendar included.
C2_EveryCalendarHasEntry ==
  UndisturbedPublish =>
    \A f \in Range(feastComparisons) : Range(lastPublish.cals) \subseteq DOMAIN f.calendars

\* C2, amended: the status map of a published feast has an entry for a
\* calendar exactly when the calendar is Present for the feast or a search
\* match for it was accepted; any other calendar has no entry at all, and
\* getFeastStatus reports the missing entry as absent.
C2_AbsentIsMissingEntry ==
  \A f \in Range(feastComparisons) :
    \A c \in Range(Catalog) \cup Range(selectedCalendars) :
      /\ c \in DOMAIN f.calendars
           <=> (IsPresent(f, c) \/ <<f.name, c>> \in published.accepted)
      /\ c \notin DOMAIN f.calendars => getFeastStatus(f, c) = "absent"

\* a run has published a feast for which it searched one of its calendars
\* and recorded nothing
C2_SearchedAndMissing ==
  /\ lastPublish.by # 0
  /\ \E f \in Range(feastComparisons) : \E c \in Range(lastPublish.cals) :
       /\ c \notin DOMAIN f.calendars
       /\ <<f.name, c>> \in Range(lastPublish.log)

\* the observances a calendar's day lookup reports: the day, then its commemorations
UnitsOf(dayInfo) == <<dayInfo.day>> \o dayInfo.commemorations

\* the positions of the publishing run's selection whose own lookup succeeded
\* and reported the description
Reporters(description) ==
  {i \in DOMAIN lastPublish.cals :
     /\ lastPublish.got[i] = "ok"
     /\ \E u \in Range(UnitsOf(getDayInfo(lastPublish.cals[i], lastPublish.date))) :
          Admitted(u) /\ u.desc = description}

\* C5: lookup failures do not abort the run; in what the run publishes, a
\* calendar whose lookup failed is Present for no feast, and every admitted
\* observance of a calendar whose lookup succeeded is a feast with that
\* calendar Present.
C5_BuiltFromSucceededLookups ==
  lastPublish.by # 0 =>
    \A i \in DOMAIN lastPublish.cals :
      LET c == lastPublish.cals[i] IN
      /\ (\A j \in DOMAIN lastPublish.cals :
            lastPublish.cals[j] = c => lastPublish.got[j] = "failed")
           => \A f \in Range(feastComparisons) : ~IsPresent(f, c)
      /\ lastPublish.got[i] = "ok"
           => \A u \in Range(UnitsOf(getDayInfo(c, lastPublish.date))) :
                Admitted(u) =>
                  \E f \in Range(feastComparisons) : f.name = u.desc /\ IsPresent(f, c)

CountIn(s, x) == Cardinality({k \in DOMAIN s : s[k] = x})

\* C8: the publishing run issued exactly one search for every pair of a
\* published feast and a calendar of its selection that is not Present for
\* the feast, none for a pair that is Present, and none outside its selection.
C8_OneSearchPerMissingPair ==
  lastPublish.by # 0 =>
    /\ \A f \in Range(feastComparisons) : \A c \in Range(lastPublish.cals) :
         CountIn(lastPublish.log, <<f.name, c>>) = IF IsPresent(f, c) THEN 0 ELSE 1
    /\ \A k \in DOMAIN lastPublish.log : lastPublish.log[k][2] \in Range(lastPublish.cals)

\* C9: the baseCalendar of every published feast is the first calendar, in
\* the order of the publishing run's selection, whose lookup reported the
\* feast's description.
C9_BaseIsFirstReporter ==
  lastPublish.by # 0 =>
    \A f \in Range(feastComparisons) :
      /\ Reporters(f.name) # {}
      /\ \E i \in Reporters(f.name) :
           /\ f.baseCalendar = lastPublish.cals[i]
           /\ \A j \in Reporters(f.name) : i <= j

\* C11: every FoundElsewhere entry, in a run that is searching and in what is
\* published, has transferred = TRUE, and belongs to a calendar other than
\* the feast's baseCalendar: no search is made for the base calendar.
C11_FoundIsTransferred ==
  \A f \in AllFeastsInPlay : \A c \in DOMAIN f.calendars :
    IsFound(f, c) => (f.calendars[c].transferred /\ c # f.baseCalendar)

\* a search has just been accepted and its entry reads as transferred
C11_AcceptedReadsTransferred ==
  /\ JustSearched
  /\ PassedThreshold
  /\ IsFound(SearchedFeast, lastSearch.calendar)
  /\ getFeastStatus(SearchedFeast, lastSearch.calendar) = "transferred"

\* the candidate of a non-empty list with the highest score, the first of them
FirstMax(results) ==
  results[CHOOSE i \in DOMAIN results :
            /\ results[i].score = MaxScore(results)
            /\ \A j \in 1..(i - 1) : results[j].score < MaxScore(results)]

\* C12: a FoundElsewhere entry carries the description, rank, colour and date
\* of the accepted match, the first candidate of highest score, and its
\* rankChanged is TRUE exactly when the rank recorded for the base calendar
\* differs from the rank of that match.
C12_FoundCarriesMatch ==
  (result # <<>> /\ IsFound(result[1], given.calendar)) =>
    LET entry == result[1].calendars[given.calendar]
        base == given.comparison.calendars[given.comparison.baseCalendar]
        match == FirstMax(given.results)
    IN /\ entry.description = match.description
       /\ entry.rank = match.rank
       /\ entry.color = match.color
       /\ entry.date = match.date
       /\ entry.rankChanged <=> (base.rank # match.rank)

\* base rank Feast, accepted match of rank Memorial beside a candidate of
\* rank Feast that scores less: the entry has rank Memorial and rankChanged
C12_RankChangedFound ==
  /\ result # <<>>
  /\ IsFound(result[1], given.calendar)
  /\ given.comparison.calendars["A"].rank = "Feast"
  /\ result[1].calendars[given.calendar].rank = "Memorial"
  /\ result[1].calendars[given.calendar].rankChanged
  /\ \E i \in DOMAIN given.results : given.results[i].rank = "Feast"

\* the admitted descriptions that the entry of a calendar reports
AdmittedIn(entry) ==
  {u.desc : u \in {v \in Range(UnitsOf(entry.dayInfo)) : Admitted(v)}}

\* C13: after the grouping there is exactly one feast per distinct admitted
\* description string: no two feasts have the same name, the names are the
\* admitted descriptions, and a calendar is Present for a feast exactly when
\* it reports a description equal to the feast's name character by character.
C13_OneFeastPerExactDescription ==
  result # <<>> =>
    LET feasts == result[1] IN
    /\ \A i, j \in DOMAIN feasts : feasts[i].name = feasts[j].name => i = j
    /\ {feasts[i].name : i \in DOMAIN feasts}
         = UNION {AdmittedIn(given[k]) : k \in DOMAIN given}
    /\ \A i \in DOMAIN feasts : \A k \in DOMAIN given :
         IsPresent(feasts[i], given[k].calendar) <=> feasts[i].name \in AdmittedIn(given[k])

\* two feasts were built whose names differ only in the white space around them
C13_WordingsKeptApart ==
  /\ result # <<>>
  /\ \E i, j \in DOMAIN result[1] :
       /\ i # j
       /\ Trim(result[1][i].name) = Trim(result[1][j].name)

Ascending(feasts) ==
  \A i, j \in DOMAIN feasts : i < j => localeCompare(feasts[i].name, feasts[j].name) <= 0

NamesAndBases(feasts) == {<<feasts[i].name, feasts[i].baseCalendar>> : i \in DOMAIN feasts}

\* the feasts run r has built when it takes the step that publishes: those it
\* was searching for, or those of the grouping when nothing had to be searched
BuiltBy(r) ==
  IF runs[r].pc = "search" THEN runs[r].allFeasts ELSE CollectFeasts(<<>>, calendarData')

\* C14: what a run publishes is in ascending order of name, by the locale
\* comparison, and holds every feast the run built exactly once.
C14_PublishedSortedAndComplete ==
  [][\A r \in RunIds :
       lastPublish'.by = r =>
         /\ Ascending(feastComparisons')
         /\ Len(feastComparisons') = Len(BuiltBy(r))
         /\ NamesAndBases(feastComparisons') = NamesAndBases(BuiltBy(r))
         /\ \A i, j \in DOMAIN feastComparisons' :
              feastComparisons'[i].name = feastComparisons'[j].name => i = j]_vars

\* a run has published two feasts, the one it built second ahead of the one
\* it built first
C14_PublishedReordered ==
  /\ lastPublish.by # 0
  /\ lastPublish.cals = <<"A", "B">>
  /\ Len(feastComparisons) = 2
  /\ feastComparisons[1].baseCalendar = "B"
  /\ feastComparisons[2].baseCalendar = "A"

\* the observance studied has no content: its description or its rank is
\* empty or white space only
BlankObservance == Trim(given.unit.desc) = <<>> \/ Trim(given.unit.rank) = <<>>

\* the grouping loop made a feast of the observance studied, with its calendar Present
GroupedAsFeast ==
  /\ Len(result[1].feasts) = 1
  /\ result[1].feasts[1].name = given.unit.desc
  /\ result[1].feasts[1].calendars["A"].rank = given.unit.rank
  /\ getFeastStatus(result[1].feasts[1], "A") = "present"

\* C15, as the specification states it: in a reconciliation run an observance
\* whose description or rank is empty or white space only creates no feast.
C15_BlankObservanceNotGrouped ==
  (result # <<>> /\ BlankObservance) => result[1].feasts = <<>>

\* C15, amended: the novena worthiness test rejects an observance whose
\* description or rank is empty or white space only; the grouping loop of a
\* reconciliation run rejects it only when its description is empty, and
\* otherwise makes a feast of it, Present in its calendar, unless its
\* description is a feria.
C15_BlankRejectedByWorthinessOnly ==
  (result # <<>> /\ BlankObservance) =>
    /\ ~result[1].worthy
    /\ given.unit.desc = <<>> => result[1].feasts = <<>>
    /\ (given.unit.desc # <<>> /\ ~isFeria(given.unit.desc)) => GroupedAsFeast

\* an observance with a description and an empty rank counted as not worthy
\* of a novena and was grouped as a feast
C15_EmptyRankGrouped ==
  /\ result # <<>>
  /\ given.unit.rank = <<>>
  /\ given.unit.desc = StX
  /\ ~result[1].worthy
  /\ GroupedAsFeast

\* the observance studied is dated on a Sunday and reads as an ordinary
\* Sunday: its rank contains "sunday", "dominica" or "ordinary", or its
\* description contains "ordinary time", whatever the case of the letters
OrdinarySunday ==
  /\ isSunday(given.date)
  /\ \/ Contains(given.unit.rank, <<"s","u","n","d","a","y">>)
     \/ Contains(given.unit.rank, <<"d","o","m","i","n","i","c","a">>)
     \/ Contains(given.unit.rank, <<"o","r","d","i","n","a","r","y">>)
     \/ Contains(given.unit.desc, <<"o","r","d","i","n","a","r","y"," ","t","i","m","e">>)

\* C16, as the specification states it: in a reconciliation run an ordinary
\* Sunday creates no feast, also when the classifier does not mark it a feria.
C16_OrdinarySundayNotGrouped ==
  (result # <<>> /\ OrdinarySunday) => result[1].feasts = <<>>

\* C16, amended: the novena worthiness test rejects an ordinary Sunday, also
\* when the classifier does not mark it a feria; the grouping loop of a
\* reconciliation run makes no test of the day or the rank, and makes a feast
\* of it exactly when its description is not empty and not a feria.
C16_SundayRejectedByWorthinessOnly ==
  (result # <<>> /\ OrdinarySunday) =>
    /\ ~result[1].worthy
    /\ IF given.unit.desc # <<>> /\ ~isFeria(given.unit.desc)
         THEN GroupedAsFeast
         ELSE result[1].feasts = <<>>

\* the Third Sunday of Advent, of rank Sunday, on a Sunday: not a feria for
\* the classifier, not worthy of a novena, and grouped as a feast
C16_SundayGrouped ==
  /\ result # <<>>
  /\ OrdinarySunday
  /\ given.unit.desc = ThirdSundayOfAdvent
  /\ given.unit.rank = SundayRank
  /\ ~isFeria(given.unit.desc)
  /\ ~result[1].worthy
  /\ GroupedAsFeast

LookupPending(run) == \E i \in DOMAIN run.got : run.got[i] = "pending"

\* C17: a run issues the lookups of all its calendars in the step that starts
\* it, before it waits for any of them; and while one of its lookups has not
\* settled it has grouped nothing, searched nothing and published nothing.
C17_LookupsSettleBeforeGrouping ==
  [][\A r \in RunIds :
       /\ (runs[r].pc = "idle" /\ runs'[r].pc # "idle") =>
            /\ runs'[r].pc = "lookups"
            /\ DOMAIN runs'[r].got = DOMAIN runs'[r].cals
            /\ \A i \in DOMAIN runs'[r].got : runs'[r].got[i] = "pending"
       /\ LookupPending(runs'[r]) =>
            /\ runs'[r].pc = "lookups"
            /\ runs'[r].allFeasts = <<>>
            /\ runs'[r].log = <<>>
            /\ lastPublish'.by # r
            /\ lastSearch'.run # r]_vars

\* a run is searching after one of its lookups failed and another succeeded
C17_SearchingAfterMixedLookups ==
  \E r \in RunIds :
    /\ runs[r].pc = "search"
    /\ "failed" \in Range(runs[r].got)
    /\ "ok" \in Range(runs[r].got)

\* the searches a run has issued are in feast-then-calendar order: by the
\* position of the feast among the feasts built, then by the position of the
\* calendar in the selection
OrderedLog(run, selected) ==
  \A k, l \in DOMAIN run.log :
    k < l =>
      LET fk == FeastIndex(run.allFeasts, run.log[k][1])
          fl == FeastIndex(run.allFeasts, run.log[l][1])
      IN \/ fk < fl
         \/ fk = fl /\ IndexOf(run.log[k][2], selected) < IndexOf(run.log[l][2], selected)

SearchesIssued == IF result = <<>> THEN <<>> ELSE result[1].log

\* C18: a run issues its searches one at a time, a new one only in the step
\* in which the one before it settles, and in feast-then-calendar order: all
\* the searches of a feast, its calendars in selection order, before the
\* first search of the next feast.
C18_SearchesOneAtATimeInOrder ==
  [][result' # <<>> =>
       /\ Len(result'[1].log) <= Len(SearchesIssued) + 1
       /\ SubSeq(result'[1].log, 1, Len(SearchesIssued)) = SearchesIssued
       /\ result'[1].pc = "search" => Len(result'[1].log) = Len(SearchesIssued) + 1
       /\ OrderedLog(result'[1], given.selected)]_vars

\* a run is over that searched one feast in calendar C and then in calendar
\* B, as the selection orders them, and another feast as well
C18_TwoCalendarsThenNextFeast ==
  /\ result # <<>>
  /\ result[1].pc = "done"
  /\ \E k \in 1..(Len(result[1].log) - 1) :
       /\ result[1].log[k][1] = result[1].log[k + 1][1]
       /\ result[1].log[k][2] = "C"
       /\ result[1].log[k + 1][2] = "B"
  /\ \E k, l \in DOMAIN result[1].log : result[1].log[k][1] # result[1].log[l][1]

\* the collaborators answered the two runs alike: every lookup settled the
\* same way, and a search that both runs made was accepted by both or by neither
SameResponses(one, other) ==
  /\ one.got = other.got
  /\ \A pair \in Range(one.log) \cap Range(other.log) :
       pair \in one.accepted <=> pair \in other.accepted

\* C19: a run that publishes after another run of the same date and the same
\* ordered selection, which is still the selection, the collaborators having
\* answered both alike, publishes what that run published: the same feasts in
\* the same order, with the same base calendars and the same statuses,
\* whatever the order of arrival.
C19_SameInputsSameOutput ==
  [][(/\ lastPublish'.by # 0
      /\ published.by # 0
      /\ published.by # published'.by
      /\ published.date = published'.date
      /\ published.cals = published'.cals
      /\ selectedCalendars' = published'.cals
      /\ SameResponses(published, published'))
       => feastComparisons' = feastComparisons]_vars

\* the last lookup of run r settles in this step, and the run goes on to group
\* calendarData as the step leaves it
GroupingStep(r) == runs[r].pc = "lookups" /\ runs'[r].pc # "lookups"

\* entry k of the data run r groups is what the run's own lookup of its k-th
\* calendar returned for its own date: the lookup that settles in this step,
\* or one that had succeeded before
OwnLookup(r, k) ==
  /\ k <= Len(runs[r].cals)
  /\ \/ runs[r].got[k] = "pending"
     \/ /\ runs[r].got[k] = "ok"
        /\ calendarData'[k] = SettledEntry(runs[r].cals[k], runs[r].date, "ok")

\* C20: no working state is shared between runs in flight: every day that a
\* run groups, with its observances, is the response of a lookup that the
\* same run issued for its own date and selection, never a response that
\* another run stored into the per-calendar data.
C20_GroupsOwnLookupsOnly ==
  [][\A r \in RunIds :
       GroupingStep(r) =>
         \A k \in DOMAIN calendarData' :
           calendarData'[k].st = "ok" => OwnLookup(r, k)]_vars

\* C21: whatever lookups and searches fail, a run that ends leaves the
\* run-level error empty, publishes its comparison (possibly empty) and sets
\* the loading flag back to false.
C21_RunEndsPublishedWithoutError ==
  [][\A r \in RunIds :
       (InFlight(r) /\ runs'[r].pc = "done")
         => (error' = "" /\ lastPublish'.by = r /\ ~isLoading')]_vars

Classified == result # <<>> /\ given.opening \in Openings

\* C22: isFeria is true of every description that, trimmed and whatever its
\* case, starts with a weekday or ordinal pattern (a weekday name and "of" or
\* "in", Weekday, Feria, Ordinary Time, Day N of, First..Seventh Day of), and
\* false of every description that starts neither with such a pattern nor
\* with a Marian reference.
C22_WeekdayPatternsOnly ==
  Classified =>
    /\ given.opening \in WeekdayOpenings => result[1]
    /\ given.opening \notin WeekdayOpenings \cup MarianOpenings => ~result[1]

\* C22, amended: isFeria is true of every description that, trimmed and
\* whatever its case, starts with a weekday or ordinal pattern or with Sabato
\* or Dominica, and false of every description that starts with none of these
\* and with no Marian reference.
C22_WeekdayOrLatinPatterns ==
  Classified =>
    /\ given.opening \in WeekdayOpenings \cup LatinOpenings => result[1]
    /\ given.opening \in ProperOpenings => ~result[1]

\* a description in upper case, after a blank, that starts with Sabato or
\* Dominica is classified a feria
C22_LatinNameIsFeria ==
  /\ Classified
  /\ given.opening \in LatinOpenings
  /\ given.case = "upper"
  /\ given.lead = <<" ">>
  /\ result[1]

\* C23: of a description that starts with a Marian reference, and so matches
\* no weekday pattern, isFeria is true exactly when the description has
\* Saturday in it, or "Memorial of" followed by "Mary", or ends with "of the
\* Blessed Virgin Mary"; without such a qualifier it is not excluded.
C23_MarianOnlyWithQualifier ==
  (Classified /\ given.opening \in MarianOpenings)
    => (result[1] <=> given.ending \in QualifiedEndings)

\* "Our Lady" with "Memorial of Mary Most Holy" after it, and a blank at the
\* end, is classified a feria
C23_OurLadyMemorialExcluded ==
  /\ Classified
  /\ given.opening = <<"o","u","r"," ","l","a","d","y">>
  /\ given.ending = <<" ","m","e","m","o","r","i","a","l"," ","o","f"," ","m","a","r","y"," ","m","o","s","t"," ","h","o","l","y">>
  /\ given.trail = <<" ">>
  /\ result[1]

\* the number of days of a month (1..12) of a year
DaysInMonth(year, month) == MakeDay(year, month, 1) - MakeDay(year, month - 1, 1)

\* the text is a date of the calendar written YYYY-MM-DD
IsValidDate(text) ==
  /\ IsDateShaped(text)
  /\ DateNumbers(text).month \in 1..12
  /\ DateNumbers(text).day \in 1..DaysInMonth(DateNumbers(text).year, DateNumbers(text).month)

Did(what) == result # <<>> /\ result[1].did = what

\* C24: selectedDate is the date parameter of the route when that parameter
\* is a valid YYYY-MM-DD date, and today's date when the parameter is absent
\* or is not a valid date.
C24_SelectedDateIsValidParamOrToday ==
  Did("selectedDate") =>
    result[1].value =
      IF HasDate(given.query) /\ IsValidDate(given.query["date"])
        THEN given.query["date"]
        ELSE toISODate(given.now)

\* C25: updateSelectedDate(d) navigates to the same named route, with the
\* date parameter of the query set to d and every other parameter of the
\* query as it was.
C25_UpdateKeepsOtherParameters ==
  Did("updateSelectedDate") =>
    /\ result[1].push.name = given.routeName
    /\ DOMAIN result[1].push.query = DOMAIN given.query \cup {"date"}
    /\ result[1].push.query["date"] = result[1].newDate
    /\ \A k \in DOMAIN given.query \ {"date"} :
         result[1].push.query[k] = given.query[k]

\* a date was pushed over another date on the Week route, the query holding a
\* selection of calendars as well
C25_DateReplacedBesideCalendars ==
  /\ Did("updateSelectedDate")
  /\ given.routeName = "Week"
  /\ DOMAIN given.query = {"date", "calendars"}
  /\ given.query["date"] # result[1].newDate
  /\ result[1].push.query["calendars"] = CalendarsParam

\* the date written YYYY-MM-DD of a day of the calendar
DateText(year, month, day) == toISODate(DayFromCivil(year, month, day) * 24)

\* the month (as year and month) that lies direction months from a month
MonthAway(year, month, direction) ==
  [year |-> year + (month - 1 + direction) \div 12,
   month |-> ((month - 1 + direction) % 12) + 1]

\* the selected date is a date of the calendar whose day of the month exists
\* in the month before and in the month after
Steppable(dateStr) ==
  /\ IsValidDate(dateStr)
  /\ \A direction \in {0 - 1, 1} :
       LET d == DateNumbers(dateStr)
           to == MonthAway(d.year, d.month, direction)
       IN d.day <= DaysInMonth(to.year, to.month)

\* the date one step from a date: a day on Today and Nerd, seven days on
\* Week, the same day of the adjacent month on Month
OneStepFrom(routeName, dateStr, direction) ==
  LET d == DateNumbers(dateStr)
      to == MonthAway(d.year, d.month, direction)
      today == DayFromCivil(d.year, d.month, d.day)
  IN IF routeName \in {"Today", "Nerd"} THEN toISODate((today + direction) * 24)
     ELSE IF routeName = "Week" THEN toISODate((today + 7 * direction) * 24)
     ELSE DateText(to.year, to.month, d.day)

\* C26: goToPrevious and goToNext navigate to the selected date minus or plus
\* exactly one day on the Today and Nerd routes, seven days on the Week
\* route, and one month, to the same day of the month, on the Month route,
\* across the ends of months and years.
C26_StepsByDayWeekOrMonth ==
  LET selected == selectedDateOf(given.query, given.now) IN
  Steppable(selected) =>
    /\ Did("goToPrevious")
         => result[1].push.query["date"] = OneStepFrom(given.routeName, selected, 0 - 1)
    /\ Did("goToNext")
         => result[1].push.query["date"] = OneStepFrom(given.routeName, selected, 1)

\* C27: for every date d of the calendar and every whole number n of days,
\* daysBetween(d, addDays(d, n)) = n, and addDays(d, 0) = d, across the ends
\* of months and years and in leap years.
C27_AddDaysThenDaysBetween ==
  result # <<>> =>
    /\ result[1].between = given.days
    /\ given.days = 0 => result[1].added = given.date

\* what TodayView displays is, for every calendar it holds, the DayInfo of
\* that calendar on the displayed date, and it holds only displayed calendars
DisplayedAsFetched ==
  \A c \in DOMAIN todayView.displayedData :
    /\ c \in Range(todayView.displayedCalendars)
    /\ todayView.displayedDate # <<>>
    /\ todayView.displayedData[c] = getDayInfo(c, todayView.displayedDate[1])

\* what TodayView displays
Displayed ==
  <<todayView.displayedData, todayView.displayedDate, todayView.displayedCalendars>>

\* an invocation whose controller a newer invocation aborted leaves what is
\* displayed alone when it gets past its lookups
CancelledLoadShowsNothing ==
  \A i \in DOMAIN loads :
    (loads[i].pc = "lookups" /\ loads'[i].pc = "done" /\ loads[i].aborted)
      => Displayed' = Displayed

\* C28: whatever the interleaving of overlapping invocations of loadDayInfo,
\* only an invocation that no newer one has cancelled updates what is
\* displayed, so displayedData always holds the day info that was fetched for
\* displayedDate and displayedCalendars.
C28_OnlyUncancelledLoadUpdatesDisplay ==
  [][CancelledLoadShowsNothing]_vars /\ []DisplayedAsFetched

\* what invocation k of performSearch found
ResultsOf(k) == deduplicateResults(Flat(searches[k].cals, searches[k].allResults))

\* an invocation of performSearch for another query than the most recently
\* started one leaves state.results alone when it gets past its searches
OlderSearchWritesNothing ==
  \A k \in DOMAIN searches :
    (/\ searches[k].pc = "searching" /\ searches'[k].pc = "done"
     /\ k < Len(searches)
     /\ searches[k].query # searches[Len(searches)].query)
      => state'.results = state.results

\* no search is in flight and nothing cleared the results since the last one
\* started
LastSearchStands ==
  /\ searches # <<>>
  /\ \A k \in DOMAIN searches : searches[k].pc = "done"
  /\ ~searches[Len(searches)].aborted

\* C29: when performSearch for Q2 starts while performSearch for Q1 awaits its
\* results, Q1's results are never written into state.results, and whenever no
\* search is in flight the results are those of the most recently started
\* search.
C29_OnlyLatestSearchWritesResults ==
  /\ [][OlderSearchWritesNothing]_vars
  /\ [](LastSearchStands => state.results = ResultsOf(Len(searches)))

\* C30: provided every call of api.searchFeasts settles, state.loading
\* eventually returns to false after every performSearch, also when
\* clearResults, clearSearch or a newer performSearch comes while the search is
\* in flight.
C30_LoadingEventuallyFalse == state.loading ~> ~state.loading

\* the dates of the 7-day window centred on a date
WindowOf(date) == {date + WeekOffsets[i] : i \in DOMAIN WeekOffsets}

\* the displayed week holds, for dates of the window centred on displayedDate
\* only, what the Day-Lookup Service answers for the date and the calendar
DisplayedWeekAsFetched ==
  weekView.displayedWeekData # <<>> =>
    /\ weekView.displayedDate # <<>>
    /\ \A date \in DOMAIN weekView.displayedWeekData[1] :
         /\ date \in WindowOf(weekView.displayedDate[1])
         /\ \A c \in DOMAIN weekView.displayedWeekData[1][date] :
              weekView.displayedWeekData[1][date][c] = getDayInfo(c, date)

\* C31: in WeekView, whatever date and calendar changes and load completions
\* came before, whenever no load is in progress the displayed week data is what
\* was fetched for the 7-day window centred on displayedDate, also when
\* selectedDate changed while a load was in progress.
C31_DisplayedWeekIsWindowOfDisplayedDate ==
  ~weekView.loading => DisplayedWeekAsFetched

\* every invocation of loadMonthData has finished and no lookup failed
MonthRunsFinished ==
  /\ monthRuns # <<>>
  /\ \A r \in DOMAIN monthRuns : monthRuns[r].pc = "done" /\ ~monthRuns[r].failed

\* monthInfoMap has an entry for every date of the selected month and every
\* selected calendar
MonthComplete ==
  \A i \in DOMAIN monthDates(selectedDate) : \A c \in Range(selectedCalendars) :
    /\ monthDates(selectedDate)[i] \in DOMAIN monthInfoMap
    /\ c \in DOMAIN monthInfoMap[monthDates(selectedDate)[i]]

\* C32: whatever the interleaving of overlapping runs of loadMonthData, once
\* all runs have finished and every lookup succeeded, monthInfoMap holds an entry
\* for every date of the selected month and every selected calendar.
C32_FinishedRunsLeaveMonthComplete == MonthRunsFinished => MonthComplete

\* runs overlapped, an older one reset a date that held entries while a newer
\* one was loading, all finished without a failure, and calendars are selected
C32_OlderRunResetDateOfLatest ==
  /\ MonthRunsFinished
  /\ Len(selectedCalendars) = 2
  /\ \E r \in DOMAIN monthRuns : r < Len(monthRuns) /\ monthRuns[r].reset

\* the statuses the comparison table shows for the published feasts
PublishedStatuses ==
  {getFeastStatus(f, c) : f \in Range(feastComparisons), c \in Range(Catalog)}

\* C33: every cell of a published reconciliation, one per feast and calendar,
\* reads 'present', 'transferred' or 'absent'; 'rank-changed' and
\* 'found-elsewhere' are never shown.
C33_StatusIsPresentTransferredOrAbsent ==
  PublishedStatuses \subseteq {"present", "transferred", "absent"}

\* a published feast has a cell found by search whose rank differs from the
\* base calendar's, next to a present cell and an absent one
C33_RankChangedCellShownTransferred ==
  /\ lastPublish.by # 0
  /\ \E f \in Range(feastComparisons) : \E c \in DOMAIN f.calendars :
       /\ ~f.calendars[c].present
       /\ f.calendars[c].rankChanged
       /\ getFeastStatus(f, c) = "transferred"
  /\ PublishedStatuses = {"present", "transferred", "absent"}

\* C34: isLoading is true whenever at least one run of loadAllCalendarData is
\* in flight; a superseded run that finishes does not clear the flag while a
\* newer run is still loading.
C34_LoadingWhileAnyRunInFlight ==
  (\E r \in RunIds : InFlight(r)) => isLoading

(***************************************************************************)
(* NovenaView: the categories of loadNovenaData                            *)
(***************************************************************************)
\* at most so many days of the window carry a feast worthy of a novena
MaxFeastDays == 2

\* for (let i = 1; i <= 21; i++)
DaysAhead == 21

\* the radio buttons of novenaDays: 8 (modern) or 9 (traditional)
NovenaSettings == {8, 9}

\* the values of feastMap in insertion order: the loop over i = from..21 creates
\* a feast on each day that has a worthy observance, with daysAway = i
RECURSIVE FeastsFrom(_, _, _)
FeastsFrom(from, feastDays, novenaDays) ==
  IF from > DaysAhead THEN <<>>
  ELSE (IF from \in feastDays
          THEN <<[date |-> from, daysAway |-> from,
                  novenaStartDate |-> from - novenaDays]>>
          ELSE <<>>)
       \o FeastsFrom(from + 1, feastDays, novenaDays)

currentNovenas(allFeasts, novenaDays) ==
  LET Test(f) == f.daysAway <= novenaDays - 1 /\ f.daysAway >= 1
  IN SelectSeq(allFeasts, Test)

startToday(allFeasts, novenaDays) ==
  LET Test(f) == f.daysAway = novenaDays
  IN SelectSeq(allFeasts, Test)

\* a filter that lets the day of the start into the upcoming feasts as well
upcomingFromStart(allFeasts, novenaDays) ==
  LET Test(f) == f.daysAway >= novenaDays /\ f.daysAway <= novenaDays + 6
  IN SelectSeq(allFeasts, Test)

upcoming(allFeasts, novenaDays) ==
  LET Test(f) == f.daysAway > novenaDays /\ f.daysAway <= novenaDays + 6
  IN SelectSeq(allFeasts, Test)

\* novenas.value, in the order loadNovenaData lists the categories
novenas(allFeasts, novenaDays) ==
  <<[cssClass |-> "start-today", feasts |-> startToday(allFeasts, novenaDays)],
    [cssClass |-> "upcoming-novenas", feasts |-> upcoming(allFeasts, novenaDays)],
    [cssClass |-> "current-novenas", feasts |-> currentNovenas(allFeasts, novenaDays)]>>

\* the sets of days of the window that carry a worthy feast
FeastDaySets == {days \in SUBSET (1..DaysAhead) : Cardinality(days) <= MaxFeastDays}

InitNovena ==
  /\ InitView
  /\ searchResults = <<>>
  /\ chosen = NoMatch
  /\ given \in [novenaDays : NovenaSettings, feastDays : FeastDaySets]
  /\ result = <<>>

\* loadNovenaData once every lookup has settled
LoadNovenaData ==
  /\ result = <<>>
  /\ result' = <<[allFeasts |-> FeastsFrom(1, given.feastDays, given.novenaDays),
                  novenas |-> novenas(FeastsFrom(1, given.feastDays, given.novenaDays),
                                      given.novenaDays)]>>
  /\ UNCHANGED <<given, view, searchResults, chosen, pages>>

NextNovena == LoadNovenaData

SpecNovena == InitNovena /\ [][NextNovena]_vars

\* the categories that list the feast
CategoriesOf(f) ==
  {k \in DOMAIN result[1].novenas : f \in Range(result[1].novenas[k].feasts)}

\* the category the distance of a feast asks for, none beyond novenaDays + 6
CategoryAt(daysAway, novenaDays) ==
  IF daysAway <= novenaDays - 1 THEN {"current-novenas"}
  ELSE IF daysAway = novenaDays THEN {"start-today"}
  ELSE IF daysAway <= novenaDays + 6 THEN {"upcoming-novenas"}
  ELSE {}

\* C35: for novenaDays 8 or 9 the three categories of loadNovenaData are
\* pairwise disjoint, and a loaded feast (daysAway in 1..21) is in exactly one
\* category if and only if daysAway <= novenaDays + 6: in progress for
\* 1..novenaDays-1, start today for novenaDays, upcoming for
\* novenaDays+1..novenaDays+6; a feast farther away is in no category.
C35_NovenaCategoriesPartitionByDistance ==
  result # <<>> =>
    \A f \in Range(result[1].allFeasts) :
      /\ f.daysAway \in 1..DaysAhead
      /\ Cardinality(CategoriesOf(f)) =
           IF f.daysAway <= given.novenaDays + 6 THEN 1 ELSE 0
      /\ {result[1].novenas[k].cssClass : k \in CategoriesOf(f)} =
           CategoryAt(f.daysAway, given.novenaDays)

\* the traditional novena of 9 days, with a feast that starts today and a
\* feast too far away to be listed
C35_StartTodayAndTooFarAway ==
  /\ result # <<>>
  /\ given.novenaDays = 9
  /\ \E f, g \in Range(result[1].allFeasts) :
       /\ f.daysAway = 9
       /\ CategoriesOf(f) = {1}
       /\ g.daysAway = 16
       /\ CategoriesOf(g) = {}

(***************************************************************************)
(* useCalendarSelection on its own: the catalog, the selection and the URL *)
(***************************************************************************)
\* pieces between the commas of the calendars parameter
MaxQueryCalendars == 2

\* invocations of loadCalendars that await api.getCalendars at once
MaxCatalogLoads == 2

\* what stands between two commas: a name of the catalog, a name the catalog
\* does not know, or nothing
QueryNames == UrlNames \cup {""}

\* route.query.calendars split at its commas; <<>> is a URL without the parameter
CalendarsParams == SeqsUpTo(QueryNames, MaxQueryCalendars)

\* the catalogs api.getCalendars answers with; one holds the default calendars
ApiCatalogs == {Catalog, <<"of-us", "A", "ef">>}

CatalogOutcomes ==
  {[threw |-> FALSE, calendars |-> c] : c \in ApiCatalogs}
    \cup {[threw |-> TRUE, calendars |-> <<>>]}

\* split(',').filter((name) => name.length > 0)
getCalendarsFromUrl(routeQuery) == FilterSeq(routeQuery, Range(routeQuery) \ {""})

\* router.replace with the joined names, or without the parameter; nothing
\* when the parameter reads the same
updateUrlWithCalendars(routeQuery, calendarsToSelect) ==
  IF Len(calendarsToSelect) > 0 THEN calendarsToSelect
  ELSE IF routeQuery = <<"">> THEN routeQuery
  ELSE <<>>

\* a filter that takes every name of the URL
everyUrlCalendar(urlCalendars, catalogue) == urlCalendars

\* urlCalendars.filter((name) => calendars.value.some((cal) => cal.name === name))
validCalendarsOf(urlCalendars, catalogue) == FilterSeq(urlCalendars, Range(catalogue))

\* .filter((name) => name == 'of-us' || name == 'ef')
defaultCalendars(catalogue) == FilterSeq(catalogue, {"of-us", "ef"})

\* the watcher loadCalendars registers on selectedCalendars, once it is there
Watched(watching, routeQuery, selected) ==
  IF watching THEN updateUrlWithCalendars(routeQuery, selected) ELSE routeQuery

\* loadCalendars(router, route) after its await, as every caller invokes it
loadCalendars(catalogue, selected, routeQuery, watching) ==
  LET urlCalendars == getCalendarsFromUrl(routeQuery)
      valid == validCalendarsOf(urlCalendars, catalogue)
  IN IF Len(urlCalendars) > 0
       THEN [selected |-> valid,
             route |-> IF Len(valid) # Len(urlCalendars)
                         THEN updateUrlWithCalendars(routeQuery, valid)
                         ELSE Watched(watching, routeQuery, valid)]
     ELSE IF Len(catalogue) > 0 /\ Len(selected) = 0
       THEN [selected |-> defaultCalendars(catalogue),
             route |-> updateUrlWithCalendars(routeQuery, defaultCalendars(catalogue))]
     ELSE [selected |-> selected, route |-> routeQuery]

\* what the steps of useCalendarSelection leave alone
besideSelection ==
  <<selectedDate, mounted, calendarData, feastComparisons, isLoading, error, runs,
    started, published, lastPublish, lastSearch, searchResults, chosen, given, result,
    todayView, loads, state, abortController, searches, grids>>

\* the module is imported: no catalog, no selection, and the URL the page was
\* opened with
InitSelection ==
  /\ selectedCalendars = <<>>
  /\ InitReconciliation
  /\ InitTodayView /\ InitUseSearch /\ InitWeekView /\ InitMonthView
  /\ searchResults = <<>>
  /\ chosen = NoMatch
  /\ NoStudy
  /\ calendars = <<>>
  /\ catalogLoads = 0
  /\ catalogState = [loading |-> FALSE, error |-> "", watching |-> FALSE,
                     urlCalendars |-> <<>>]
  /\ route \in CalendarsParams

\* selectedCalendars.value = selected, and the watcher's update of the URL
Selects(selected) ==
  /\ selectedCalendars' = selected
  /\ route' = Watched(catalogState.watching, route, selected)

\* loadCalendars up to its await
LoadCalendars ==
  /\ catalogLoads < MaxCatalogLoads
  /\ catalogLoads' = catalogLoads + 1
  /\ catalogState' = [catalogState EXCEPT !.loading = TRUE, !.error = ""]
  /\ UNCHANGED <<selectedCalendars, calendars, route>>
  /\ UNCHANGED besideSelection

\* api.getCalendars settles, with the one catalog the server has
CalendarsSettle(outcome) ==
  /\ catalogLoads > 0
  /\ catalogLoads' = catalogLoads - 1
  /\ IF outcome.threw
       THEN /\ catalogState' = [catalogState EXCEPT !.loading = FALSE, !.error = "Error"]
            /\ UNCHANGED <<selectedCalendars, calendars, route>>
       ELSE /\ calendars \in {<<>>, outcome.calendars}
            /\ calendars' = outcome.calendars
            /\ LET after == loadCalendars(outcome.calendars, selectedCalendars, route,
                                          catalogState.watching)
               IN /\ selectedCalendars' = after.selected
                  /\ route' = after.route
            /\ catalogState' =
                 [catalogState EXCEPT !.loading = FALSE, !.watching = TRUE,
                                      !.urlCalendars = getCalendarsFromUrl(route)]
  /\ UNCHANGED besideSelection

\* a checkbox of the calendar list, which shows the calendars of the catalog
ToggleCalendar(calendarName) ==
  /\ calendarName \in Range(calendars)
  /\ Selects(IF calendarName \in Range(selectedCalendars)
               THEN FilterSeq(selectedCalendars, Range(selectedCalendars) \ {calendarName})
               ELSE Append(selectedCalendars, calendarName))
  /\ UNCHANGED <<calendars, catalogLoads, catalogState>>
  /\ UNCHANGED besideSelection

SelectAll ==
  /\ Selects(calendars)
  /\ UNCHANGED <<calendars, catalogLoads, catalogState>>
  /\ UNCHANGED besideSelection

SelectNone ==
  /\ Selects(<<>>)
  /\ UNCHANGED <<calendars, catalogLoads, catalogState>>
  /\ UNCHANGED besideSelection

SyncWithRoute ==
  /\ IF Len(getCalendarsFromUrl(route)) > 0
       THEN Selects(validCalendarsOf(getCalendarsFromUrl(route), calendars))
       ELSE UNCHANGED <<selectedCalendars, route>>
  /\ catalogState' = [catalogState EXCEPT !.urlCalendars = getCalendarsFromUrl(route)]
  /\ UNCHANGED <<calendars, catalogLoads>>
  /\ UNCHANGED besideSelection

\* the user opens a link or edits the address
Navigate(routeQuery) ==
  /\ route' = routeQuery
  /\ UNCHANGED <<selectedCalendars, calendars, catalogLoads, catalogState>>
  /\ UNCHANGED besideSelection

NextSelection ==
  \/ LoadCalendars
  \/ \E outcome \in CatalogOutcomes : CalendarsSettle(outcome)
  \/ \E c \in Range(calendars) : ToggleCalendar(c)
  \/ SelectAll
  \/ SelectNone
  \/ SyncWithRoute
  \/ \E q \in CalendarsParams : Navigate(q)

SpecSelection == InitSelection /\ [][NextSelection]_vars

\* C36: whatever the calendars parameter of the URL holds, and after any
\* sequence of loadCalendars, syncWithRoute, toggleCalendar, selectAll and
\* selectNone, selectedCalendars holds no calendar twice.
C36_SelectionHasNoDuplicate ==
  \A i, j \in DOMAIN selectedCalendars :
    selectedCalendars[i] = selectedCalendars[j] => i = j

\* C37: once loadCalendars has succeeded, every element of selectedCalendars
\* is the name of a calendar of the loaded catalog; a name of the URL that the
\* catalog does not know is never selected.
C37_SelectionWithinCatalog ==
  calendars # <<>> => Range(selectedCalendars) \subseteq Range(calendars)

\* the catalog is loaded, the URL last read named a calendar the catalog does
\* not know next to one it knows, and the known one is the selection
C37_UnknownNameOfUrlDropped ==
  /\ calendars # <<>>
  /\ "zz" \in Range(catalogState.urlCalendars)
  /\ selectedCalendars # <<>>
  /\ selectedCalendars = validCalendarsOf(catalogState.urlCalendars, calendars)
  /\ Len(selectedCalendars) < Len(catalogState.urlCalendars)

====
